---- MODULE Spec2Model ----
(***************************************************************************)
(* Model of the onnou-auto-updater content pipeline: the topic store       *)
(* (src/src/theme_manager.py, class ThemeManager) and the pipeline run     *)
(* (src/src/article_generator.py, main).                                   *)
(*                                                                         *)
(* A topic is a record with the six fields of the store file.  The         *)
(* in-memory store of a ThemeManager is the sequence themes_data['themes'];*)
(* the persisted file is the sequence of the serialised topics.  A         *)
(* reference to a topic of the store (the value get_next_theme returns) is *)
(* the topic's position in the sequence, 0 standing for None: no operation *)
(* of the program removes or reorders topics, so a position identifies a   *)
(* dict object for the life of a process.                                  *)
(***************************************************************************)
EXTENDS Integers, Sequences, FiniteSets, Bags, TLC

\* ------------------------------------------------------------------ bounds
\* longest store file present before the first operation (pre-seeded store)
MaxSeed == 2
\* largest id a pre-seeded topic carries
MaxSeedId == 2
\* longest store the model lets the pipeline runs build
MaxThemes == 4
\* longest store the model lets add_themes of hand-built lists build
MaxApiThemes == 3
\* longest store the model lets add_themes of generated batches build
MaxGrown == 2
\* longest list of items in one response of the generative service
MaxBatch == 2
\* most batches a caller of the store API holds without having added them
MaxPending == 2
\* most posts the CMS accepts in one behaviour
MaxPosts == 3
\* most posts a list of existing posts holds beyond the first CandidateLimit
MaxBeyond == 1
\* most lines in a response of the related-content request
MaxLines == 2
\* largest max_links a caller of add_internal_links passes
MaxLinksArg == 3

\* ------------------------------------------------------- program constants
\* main: "if unused_count <= 3" triggers the automatic topic generation
LowSupply == 3

\* add_internal_links: "len(existing_posts) < 3" returns the content as is
MinCorpus == 3
\* add_internal_links: "existing_posts[:30]" are the titles put in the prompt
CandidateLimit == 30

\* the processes (pipeline invocations that may exist at the same time)
Procs == {1, 2}

\* ------------------------------------------------------------------- data
\* the items the generative service can put in its JSON array
Items ==
  { [title |-> "A", keywords |-> <<"k1", "k2">>, target_pain |-> "pA", approach |-> "aA"],
    [title |-> "B", keywords |-> <<>>, target_pain |-> "pB", approach |-> "aB"] }

\* a topic of the store: an item with its id and its used flag
MkTopic(id, item, used) ==
  [id |-> id, title |-> item.title, keywords |-> item.keywords,
   target_pain |-> item.target_pain, approach |-> item.approach, used |-> used]

\* the item a pre-seeded topic carries: the store never reads it, so one
\* item per id is enough
SeedItem(id) ==
  IF id % 2 = 1
    THEN [title |-> "A", keywords |-> <<"k1", "k2">>, target_pain |-> "pA", approach |-> "aA"]
    ELSE [title |-> "B", keywords |-> <<>>, target_pain |-> "pB", approach |-> "aB"]

SeedTopics == { MkTopic(id, SeedItem(id), u) : id \in 1..MaxSeedId, u \in BOOLEAN }

\* sequences over S of length 0..n
SeqUpTo(S, n) == UNION { [1..k -> S] : k \in 0..n }

\* the store files that can exist before the first run: pre-seeded by hand,
\* so ids may repeat and any topic may already be used
SeedStores == SeqUpTo(SeedTopics, MaxSeed)

\* responses of the generative service that parse to a JSON array of items
Responses == SeqUpTo(Items, MaxBatch)

\* ---------------------------------------------------------- serialisation
\* json.dump of one topic dict: the six members in insertion order
json_dump(t) == <<t.id, t.title, t.keywords, t.target_pain, t.approach, t.used>>

\* json.load of one serialised topic
json_load(o) ==
  [id |-> o[1], title |-> o[2], keywords |-> o[3],
   target_pain |-> o[4], approach |-> o[5], used |-> o[6]]

\* ThemeManager._save_themes: the whole in-memory sequence is rewritten
save_themes(themes) == [i \in 1..Len(themes) |-> json_dump(themes[i])]

\* ThemeManager._load_themes: the whole file is read
load_themes(f) == [i \in 1..Len(f) |-> json_load(f[i])]

\* the store file when it does not exist (os.path.exists is False) and
\* when its content is not JSON (json.load raises JSONDecodeError)
NoFile == << <<"ENOENT">> >>

CorruptFile == << <<"not", "json">> >>

\* the store file just after open(self.themes_file, 'w') of line 37: it
\* exists and holds no character
EmptyFile == << <<"EMPTY">> >>

\* the store file of n characters, << <<"MIXED", n>> >>, in which the text
\* of one save stands before the rest of a longer text written by another
\* process: a JSON document followed by more characters, which json.load
\* rejects
IsMixed(f) == Len(f) = 1 /\ Len(f[1]) = 2 /\ f[1][1] = "MIXED"

\* _load_themes returns (lines 29-33)
Readable(f) == f \notin {NoFile, CorruptFile, EmptyFile} /\ ~IsMixed(f)

\* the number of characters json.dump(.., ensure_ascii=False, indent=2)
\* writes for a list of keywords, for a topic and for the whole store
RECURSIVE KeywordsChars(_, _)
KeywordsChars(keywords, i) ==
  IF i > Len(keywords) THEN 0
  ELSE 8 + Len(keywords[i]) + 2 + (IF i < Len(keywords) THEN 2 ELSE 0)
         + KeywordsChars(keywords, i + 1)

TopicLen(t) ==
  6 + (12 + (IF t.id < 10 THEN 1 ELSE IF t.id < 100 THEN 2 ELSE 3)) + (15 + Len(t.title) + 2) + (18 + (IF Len(t.keywords) = 0 THEN 2
                 ELSE 2 + KeywordsChars(t.keywords, 1) + 8))
    + (21 + Len(t.target_pain) + 2) + (18 + Len(t.approach) + 2)
    + (14 + (IF t.used THEN 4 ELSE 5)) + 10 + 6

RECURSIVE TopicsChars(_, _)
TopicsChars(themes, i) ==
  IF i > Len(themes) THEN 0
  ELSE TopicLen(themes[i]) + (IF i < Len(themes) THEN 2 ELSE 0) + TopicsChars(themes, i + 1)

TextLen(themes) == IF Len(themes) = 0 THEN 18 ELSE 16 + TopicsChars(themes, 1) + 6

\* the number of characters the file holds
FileLen(f) ==
  IF f \in {NoFile, EmptyFile} THEN 0
  ELSE IF f = CorruptFile THEN 8
  ELSE IF IsMixed(f) THEN f[1][2]
  ELSE TextLen(load_themes(f))

\* json.dump and the close of lines 37-38 by a process that opened the file
\* at line 37: its text goes to the head of the file as it is now.  The
\* file is this text, unless another process has written a longer text
\* since the open, whose end then stays behind it
write_themes(f, themes) ==
  IF TextLen(themes) >= FileLen(f) THEN save_themes(themes) ELSE << <<"MIXED", FileLen(f)>> >>

\* ------------------------------------------------------------ ThemeManager
\* get_next_theme: scan in stored order from position i, return the first
\* topic whose used flag is false (its position), 0 (None) at the end
RECURSIVE ScanUnused(_, _)
ScanUnused(themes, i) ==
  IF i > Len(themes) THEN 0
  ELSE IF ~themes[i].used THEN i
  ELSE ScanUnused(themes, i + 1)

\* faulty variant: the used flag is not looked at, the first topic is returned
get_next_theme_first(themes) == IF Len(themes) = 0 THEN 0 ELSE 1

get_next_theme(themes) == ScanUnused(themes, 1)

\* the loop of mark_as_used: first position from i whose id equals theme_id
RECURSIVE ScanId(_, _, _)
ScanId(themes, theme_id, i) ==
  IF i > Len(themes) THEN 0
  ELSE IF themes[i].id = theme_id THEN i
  ELSE ScanId(themes, theme_id, i + 1)

\* faulty variant: the loop does not stop at the first topic with the id
mark_as_used_every(themes, theme_id) ==
  IF ScanId(themes, theme_id, 1) = 0
    THEN [themes |-> themes, saved |-> FALSE, raised |-> TRUE]
    ELSE [themes |-> [i \in 1..Len(themes) |->
                        IF themes[i].id = theme_id
                          THEN [themes[i] EXCEPT !.used = TRUE] ELSE themes[i]],
          saved |-> TRUE, raised |-> FALSE]

\* faulty variant: an id that is not in the store is silently ignored
mark_as_used_silent(themes, theme_id) ==
  LET i == ScanId(themes, theme_id, 1) IN
  IF i = 0
    THEN [themes |-> themes, saved |-> FALSE, raised |-> FALSE]
    ELSE [themes |-> [themes EXCEPT ![i].used = TRUE], saved |-> TRUE, raised |-> FALSE]

\* faulty variant: the flag is set in memory and the store is not saved
mark_as_used_unsaved(themes, theme_id) ==
  LET i == ScanId(themes, theme_id, 1) IN
  IF i = 0
    THEN [themes |-> themes, saved |-> FALSE, raised |-> TRUE]
    ELSE [themes |-> [themes EXCEPT ![i].used = TRUE], saved |-> FALSE, raised |-> FALSE]

\* mark_as_used: the first topic with the id gets used = True and the store
\* is saved; with no such topic ValueError is raised and nothing is written
mark_as_used(themes, theme_id) ==
  LET i == ScanId(themes, theme_id, 1) IN
  IF i = 0
    THEN [themes |-> themes, saved |-> FALSE, raised |-> TRUE]
    ELSE [themes |-> [themes EXCEPT ![i].used = TRUE], saved |-> TRUE, raised |-> FALSE]

\* get_unused_count: sum(1 for theme in themes if not theme.get('used'))
RECURSIVE CountUnused(_, _)
CountUnused(themes, i) ==
  IF i > Len(themes) THEN 0
  ELSE (IF ~themes[i].used THEN 1 ELSE 0) + CountUnused(themes, i + 1)

\* faulty variant: every topic is counted, used or not
get_unused_count_all(themes) == Len(themes)

get_unused_count(themes) == CountUnused(themes, 1)

\* reset_all_themes: every topic gets used = False (the save follows)
reset_all_themes(themes) == [i \in 1..Len(themes) |-> [themes[i] EXCEPT !.used = FALSE]]

\* max([t['id'] for t in existing_themes]) if existing_themes else 0
RECURSIVE MaxIdFrom(_, _)
MaxIdFrom(themes, i) ==
  IF i > Len(themes) THEN 0
  ELSE LET rest == MaxIdFrom(themes, i + 1) IN
       IF i = Len(themes) THEN themes[i].id
       ELSE IF themes[i].id > rest THEN themes[i].id ELSE rest

\* faulty variant: ids continue from the number of topics, not the largest id
generate_new_themes_bylen(themes, response) ==
  [i \in 1..Len(response) |-> MkTopic(Len(themes) + (i - 1) + 1, response[i], FALSE)]

\* faulty variant: ids start at max_id, not max_id + 1
generate_new_themes_offby1(themes, response) ==
  LET max_id == MaxIdFrom(themes, 1) IN
  [i \in 1..Len(response) |-> MkTopic(max_id + (i - 1), response[i], FALSE)]

\* generate_new_themes on a response that parsed to the item list response:
\* ids max_id + i + 1 for the 0-based position i, used = False
generate_new_themes(themes, response) ==
  LET max_id == MaxIdFrom(themes, 1) IN
  [i \in 1..Len(response) |-> MkTopic(max_id + (i - 1) + 1, response[i], FALSE)]

\* faulty variant: the new topics are put in front of the stored ones
add_themes_front(themes, new_themes) == new_themes \o themes

\* add_themes: themes.extend(new_themes) (the save follows)
add_themes(themes, new_themes) == themes \o new_themes

\* ------------------------------------------- the text of a response
\* response.text as a sequence of lexemes: the fence "```", the label
\* "json" right after a fence, a run of whitespace, the JSON punctuation,
\* an object literal (the item it was written from and the members it
\* has), a string literal, and a word of prose
FieldNames == {"title", "keywords", "target_pain", "approach"}

\* the item of a lexeme that is not an object literal
NoItem == [title |-> "", keywords |-> <<>>, target_pain |-> "", approach |-> ""]

\* a lexeme; a string literal is the lexeme "str" with len, the number of
\* its characters (len = 0 is the literal "")
Tok(t) == [t |-> t, item |-> NoItem, keys |-> {}, len |-> 0]

ObjTok(item, keys) == [t |-> "obj", item |-> item, keys |-> keys, len |-> 0]

\* the longest string literal a response is written with
MaxChars == 1

\* the elements a response array is written with: complete items, an
\* item without its last member, and a bare string
Elements ==
  { ObjTok(item, FieldNames) : item \in Items }
    \cup { ObjTok(item, FieldNames \ {"approach"}) : item \in {SeedItem(1)} }
    \cup { [Tok("str") EXCEPT !.len = MaxChars] }

\* what the service answers: the payload (a JSON array, an array cut
\* before its closing bracket, one top-level object with the four members
\* or with none, one top-level string, prose, nothing) and the way it is
\* wrapped
Payloads ==
  { [shape |-> "array", elems |-> e] : e \in SeqUpTo(Elements, MaxBatch) }
    \cup { [shape |-> "truncated", elems |-> e] : e \in SeqUpTo(Elements, 1) }
    \cup { [shape |-> sh, elems |-> <<>>] : sh \in {"prose", "empty"} }
    \cup { [shape |-> "object", elems |-> <<e>>] :
             e \in {ObjTok(SeedItem(1), FieldNames), ObjTok(NoItem, {})} }
    \cup { [shape |-> "string", elems |-> <<[Tok("str") EXCEPT !.len = n]>>] :
             n \in 0..MaxChars }

Wraps == {"none", "json_fence", "plain_fence", "json_open"}

ResponseTexts == { [payload |-> pl, wrap |-> w] : pl \in Payloads, w \in Wraps }

\* "e1, e2, ..." from position i on
RECURSIVE RenderElems(_, _)
RenderElems(elems, i) ==
  IF i > Len(elems) THEN <<>>
  ELSE IF i = Len(elems) THEN <<elems[i]>>
  ELSE <<elems[i], Tok("comma"), Tok("ws")>> \o RenderElems(elems, i + 1)

RenderPayload(pl) ==
  CASE pl.shape = "array" -> <<Tok("lbr")>> \o RenderElems(pl.elems, 1) \o <<Tok("rbr")>>
    [] pl.shape = "truncated" -> <<Tok("lbr")>> \o RenderElems(pl.elems, 1)
    [] pl.shape = "object" -> pl.elems
    [] pl.shape = "string" -> pl.elems
    [] pl.shape = "prose" -> <<Tok("word"), Tok("ws"), Tok("word")>>
    [] pl.shape = "empty" -> <<>>

\* the text of a response; the service ends it with a line break
Render(d) ==
  LET body == RenderPayload(d.payload) IN
  (CASE d.wrap = "none" -> body
     [] d.wrap = "json_fence" ->
          <<Tok("fence"), Tok("label"), Tok("ws")>> \o body \o <<Tok("ws"), Tok("fence")>>
     [] d.wrap = "plain_fence" ->
          <<Tok("fence"), Tok("ws")>> \o body \o <<Tok("ws"), Tok("fence")>>
     [] d.wrap = "json_open" ->
          <<Tok("fence"), Tok("label"), Tok("ws")>> \o body) \o <<Tok("ws")>>

\* str.lstrip / the \s* after a match: the whitespace in front is dropped
RECURSIVE lstrip(_)
lstrip(s) ==
  IF Len(s) > 0 /\ s[1].t = "ws" THEN lstrip(Tail(s)) ELSE s

\* str.rstrip / the \s* before a match: the whitespace at the end is dropped
RECURSIVE rstrip(_)
rstrip(s) ==
  IF Len(s) > 0 /\ s[Len(s)].t = "ws" THEN rstrip(SubSeq(s, 1, Len(s) - 1)) ELSE s

\* response.text.strip()
strip(s) == rstrip(lstrip(s))

\* re.sub(r'^```json\s*', '', text): only a fence with the json label, at
\* the very start, is removed
sub_open_fence(s) ==
  IF Len(s) >= 2 /\ s[1].t = "fence" /\ s[2].t = "label"
    THEN lstrip(SubSeq(s, 3, Len(s)))
    ELSE s

\* re.sub(r'\s*```$', '', text): a fence at the very end is removed with
\* the whitespace before it
sub_close_fence(s) ==
  IF Len(s) >= 1 /\ s[Len(s)].t = "fence"
    THEN rstrip(SubSeq(s, 1, Len(s) - 1))
    ELSE s

\* json.loads, the scanner: one value at the front of s.  Returns the
\* value and the rest of the text, or ok = FALSE (JSONDecodeError)
RECURSIVE scan_value(_)
RECURSIVE scan_elements(_, _)
scan_value(s) ==
  IF Len(s) = 0 THEN [ok |-> FALSE, val |-> Tok("none"), rest |-> s]
  ELSE IF s[1].t \in {"obj", "str"} THEN [ok |-> TRUE, val |-> s[1], rest |-> Tail(s)]
  ELSE IF s[1].t = "lbr" THEN
         LET r == lstrip(Tail(s)) IN
         IF Len(r) > 0 /\ r[1].t = "rbr"
           THEN [ok |-> TRUE, val |-> [t |-> "arr", elems |-> <<>>], rest |-> Tail(r)]
           ELSE scan_elements(r, <<>>)
  ELSE [ok |-> FALSE, val |-> Tok("none"), rest |-> s]

\* the elements of an array after "[": value, then "," or "]"
scan_elements(s, acc) ==
  LET v == scan_value(s) IN
  IF ~v.ok THEN [ok |-> FALSE, val |-> Tok("none"), rest |-> s]
  ELSE LET r == lstrip(v.rest) IN
       IF Len(r) > 0 /\ r[1].t = "rbr"
         THEN [ok |-> TRUE, val |-> [t |-> "arr", elems |-> Append(acc, v.val)],
               rest |-> Tail(r)]
       ELSE IF Len(r) > 0 /\ r[1].t = "comma"
         THEN scan_elements(lstrip(Tail(r)), Append(acc, v.val))
       ELSE [ok |-> FALSE, val |-> Tok("none"), rest |-> r]

\* json.loads: whitespace, one value, whitespace, end of text
json_loads(s) ==
  LET v == scan_value(lstrip(s)) IN
  IF v.ok /\ Len(lstrip(v.rest)) = 0
    THEN [ok |-> TRUE, val |-> v.val]
    ELSE [ok |-> FALSE, val |-> Tok("none")]

\* enumerate(new_themes_data) (line 163): the elements of a list; the keys
\* of a dict in the order they are written, each a string; the characters
\* of a string, each a string of one character.  A dict without members
\* and the string "" give no element
Iterate(val) ==
  CASE val.t = "arr" -> val.elems
    [] val.t = "obj" ->
         LET written == <<"title", "keywords", "target_pain", "approach">>
             IsKey(name) == name \in val.keys
             names == SelectSeq(written, IsKey)
         IN [i \in 1..Len(names) |-> [Tok("str") EXCEPT !.len = Len(names[i])]]
    [] val.t = "str" -> [i \in 1..val.len |-> [Tok("str") EXCEPT !.len = 1]]

\* theme_data['title'] ... theme_data['approach'] succeed: a dict with the
\* four members (a str raises TypeError, a missing member KeyError)
Subscriptable(theme_data) ==
  theme_data.t = "obj" /\ FieldNames \subseteq theme_data.keys

\* variant with a partial-success mode: the items before the first bad one
\* are returned
RECURSIVE GoodPrefix(_, _)
GoodPrefix(data, i) ==
  IF i > Len(data) \/ ~Subscriptable(data[i]) THEN <<>>
  ELSE <<data[i].item>> \o GoodPrefix(data, i + 1)

generate_from_text_partial(themes, text) ==
  LET response_text == sub_close_fence(sub_open_fence(strip(text)))
      parsed == json_loads(response_text)
  IN IF ~parsed.ok THEN [raised |-> TRUE, new_themes |-> <<>>]
     ELSE [raised |-> FALSE,
           new_themes |-> generate_new_themes(themes, GoodPrefix(Iterate(parsed.val), 1))]

\* generate_new_themes from response.text on (lines 148-174): the fence is
\* removed, the text parsed, every item read; any exception leaves the
\* function before it returns a list.  A parsed value that gives no item
\* (an empty list, a dict without members, the string "") makes the loop
\* run zero times and the empty list is returned
generate_from_text(themes, text) ==
  LET response_text == sub_close_fence(sub_open_fence(strip(text)))
      parsed == json_loads(response_text)
  IN IF ~parsed.ok THEN [raised |-> TRUE, new_themes |-> <<>>]
     ELSE LET data == Iterate(parsed.val) IN
          IF \E i \in 1..Len(data) : ~Subscriptable(data[i])
            THEN [raised |-> TRUE, new_themes |-> <<>>]
            ELSE [raised |-> FALSE,
                  new_themes |-> generate_new_themes(themes,
                                   [i \in 1..Len(data) |-> data[i].item])]

\* ------------------------------------------- the text of a completion
\* response.text of the article request as a sequence of lexemes: an
\* opening tag "[NAME]", a closing tag "[/NAME]", a run of whitespace
\* (blanks and line breaks), a word
W(n) == [t |-> "word", n |-> n]

Ws == [t |-> "ws", n |-> ""]

Open(n) == [t |-> "open", n |-> n]

Close(n) == [t |-> "close", n |-> n]

\* a Python str that holds one word
Text(str) == <<W(str)>>

TagNames == {"TITLE", "DESCRIPTION", "TAGS", "CONTENT"}

\* how a completion carries the block of one tag name: a block, nothing,
\* an opening tag that is never closed, a closing tag that was never
\* opened, a block with a stray closing tag before and a stray opening
\* tag after it
BlockStates == {"block", "absent", "open_only", "close_only", "stray_around"}

\* the way the bodies are written: 1 a word right between the tags, 2 two
\* words with whitespace between them and around them, 3 whitespace only
BodyStyles == {1, 2, 3}

\* the body of the block of name n
BodyOf(n, style) ==
  CASE style = 1 -> <<W(n)>>
    [] style = 2 -> <<W(n), Ws, W("more")>>
    [] style = 3 -> <<>>

RenderBlock(n, style) ==
  CASE style = 1 -> <<Open(n)>> \o BodyOf(n, style) \o <<Close(n)>>
    [] style = 2 -> <<Open(n), Ws>> \o BodyOf(n, style) \o <<Ws, Close(n)>>
    [] style = 3 -> <<Open(n), Ws, Close(n)>>

RenderTag(n, st, style) ==
  CASE st = "block" -> RenderBlock(n, style)
    [] st = "absent" -> <<>>
    [] st = "open_only" -> <<Open(n), W(n)>>
    [] st = "close_only" -> <<W(n), Close(n)>>
    [] st = "stray_around" -> <<Close(n), Ws>> \o RenderBlock(n, style) \o <<Ws, Open(n)>>

\* the completions of the article request: a state per tag name, the
\* style of the bodies, the order of the blocks, prose around them or not
Completions ==
  { [st |-> st, style |-> style, order |-> order, prose |-> prose] :
      st \in [TagNames -> BlockStates], style \in BodyStyles,
      order \in {"fwd", "rev"}, prose \in BOOLEAN }

RenderCompletion(d) ==
  LET part(n) == RenderTag(n, d.st[n], d.style)
      blocks == IF d.order = "fwd"
                  THEN part("TITLE") \o <<Ws>> \o part("DESCRIPTION") \o <<Ws>>
                         \o part("TAGS") \o <<Ws>> \o part("CONTENT")
                  ELSE part("CONTENT") \o <<Ws>> \o part("TAGS") \o <<Ws>>
                         \o part("DESCRIPTION") \o <<Ws>> \o part("TITLE")
  IN IF d.prose THEN <<W("intro"), Ws>> \o blocks \o <<Ws, W("outro")>>
                ELSE blocks

\* the least index from i on where s holds the lexeme tok, 0 if none
RECURSIVE IndexFrom(_, _, _)
IndexFrom(s, tok, i) ==
  IF i > Len(s) THEN 0
  ELSE IF s[i] = tok THEN i
  ELSE IndexFrom(s, tok, i + 1)

\* re.search(r'\[NAME\]\s*(.*?)\s*\[/NAME\]', s, re.DOTALL): the leftmost
\* opening tag that has a closing tag after it, up to the first such closing
\* tag; group(1) is what lies between, without the whitespace the two \s*
\* take
re_search(name, s) ==
  LET i == IndexFrom(s, Open(name), 1)
      j == IF i = 0 THEN 0 ELSE IndexFrom(s, Close(name), i + 1)
  IN IF j = 0 THEN [found |-> FALSE, group |-> <<>>]
     ELSE [found |-> TRUE, group |-> rstrip(lstrip(SubSeq(s, i + 1, j - 1)))]

\* variant: all four blocks are required for the primary path
generate_article_allfour(theme, full_response) ==
  LET title_match == re_search("TITLE", full_response)
      description_match == re_search("DESCRIPTION", full_response)
      tags_match == re_search("TAGS", full_response)
      content_match == re_search("CONTENT", full_response)
  IN IF /\ title_match.found /\ content_match.found
        /\ description_match.found /\ tags_match.found
       THEN [title |-> strip(title_match.group),
             description |-> strip(description_match.group),
             tags |-> strip(tags_match.group),
             content |-> strip(content_match.group),
             theme_id |-> theme.id]
       ELSE [title |-> Text(theme.title), description |-> <<>>, tags |-> <<>>,
             content |-> full_response, theme_id |-> theme.id]

\* variant: every field falls back on its own
generate_article_perfield(theme, full_response) ==
  LET title_match == re_search("TITLE", full_response)
      description_match == re_search("DESCRIPTION", full_response)
      tags_match == re_search("TAGS", full_response)
      content_match == re_search("CONTENT", full_response)
  IN [title |-> IF title_match.found THEN strip(title_match.group)
                ELSE Text(theme.title),
      description |-> IF description_match.found THEN strip(description_match.group)
                      ELSE <<>>,
      tags |-> IF tags_match.found THEN strip(tags_match.group) ELSE <<>>,
      content |-> IF content_match.found THEN strip(content_match.group)
                  ELSE full_response,
      theme_id |-> theme.id]

\* generate_article from response.text on (lines 57-90)
generate_article(theme, full_response) ==
  LET title_match == re_search("TITLE", full_response)
      description_match == re_search("DESCRIPTION", full_response)
      tags_match == re_search("TAGS", full_response)
      content_match == re_search("CONTENT", full_response)
  IN IF title_match.found /\ content_match.found
       THEN [title |-> strip(title_match.group),
             description |-> IF description_match.found
                               THEN strip(description_match.group) ELSE <<>>,
             tags |-> IF tags_match.found THEN strip(tags_match.group) ELSE <<>>,
             content |-> strip(content_match.group),
             theme_id |-> theme.id]
       ELSE [title |-> Text(theme.title), description |-> <<>>, tags |-> <<>>,
             content |-> full_response, theme_id |-> theme.id]

\* ------------------------------------------------- category and links
\* CATEGORY_MAP (lines 18-24); the four Japanese category names are written
\* here in ASCII, in the order of the source
CATEGORY_MAP ==
  [k \in {"DTM", "MixingMastering", "CompositionArrangement", "SingerActivity"} |->
     CASE k = "DTM" -> 7
       [] k = "MixingMastering" -> 8
       [] k = "CompositionArrangement" -> 9
       [] k = "SingerActivity" -> 1]

\* "return 1" of lines 336 and 341
DefaultCategory == 1

\* dict.get: the value of the key, None (here 0, which is as falsy) if the
\* text is not a key
dict_get(map, text) ==
  IF \E k \in DOMAIN map : text = Text(k)
    THEN map[CHOOSE k \in DOMAIN map : text = Text(k)]
    ELSE 0

\* variant: the response is looked up as received
determine_category_unstripped(response_text, request_ok) ==
  IF ~request_ok THEN DefaultCategory
  ELSE LET category_id == dict_get(CATEGORY_MAP, response_text) IN
       IF category_id # 0 THEN category_id ELSE DefaultCategory

\* determine_category from the request on (lines 320-341): the except
\* clause catches whatever the request raises
determine_category(response_text, request_ok) ==
  IF ~request_ok THEN DefaultCategory
  ELSE LET category_name == strip(response_text)
           category_id == dict_get(CATEGORY_MAP, category_name)
       IN IF category_id # 0 THEN category_id ELSE DefaultCategory

\* an existing post as get_all_posts returns it, by its position in the list
ExistingPost(i) == [title |-> Text(ToString(i)), link |-> ToString(1000 + i)]

ExistingPosts(n) == [i \in 1..n |-> ExistingPost(i)]

\* [line.strip() for line in response.text.strip().split('\n') if line.strip()]
\* on the list of the lines of the response
RECURSIVE related_titles_of(_)
related_titles_of(lines) ==
  IF Len(lines) = 0 THEN <<>>
  ELSE LET line == strip(Head(lines)) IN
       (IF Len(line) > 0 THEN <<line>> ELSE <<>>) \o related_titles_of(Tail(lines))

\* the loop of lines 395-399 from the post at position i on: the post is
\* appended when its title is one of the lines, then the length is compared
\* with max_links
RECURSIVE related_posts_from(_, _, _, _, _)
related_posts_from(existing_posts, related_titles, max_links, i, related_posts) ==
  IF i > Len(existing_posts) THEN related_posts
  ELSE LET found == \E k \in 1..Len(related_titles) :
                      related_titles[k] = existing_posts[i].title
           appended == IF found THEN Append(related_posts, existing_posts[i])
                       ELSE related_posts
       IN IF Len(appended) >= max_links THEN appended
          ELSE related_posts_from(existing_posts, related_titles, max_links, i + 1, appended)

\* the <li><a href=link>title</a></li> items of lines 406-408
RECURSIVE link_items(_)
link_items(related_posts) ==
  IF Len(related_posts) = 0 THEN <<>>
  ELSE <<[t |-> "href", n |-> Head(related_posts).link]>> \o Head(related_posts).title
         \o link_items(Tail(related_posts))

\* add_internal_links (lines 356-415): the text returned, and the titles
\* the prompt listed
add_internal_links(content, existing_posts, max_links, lines, request_ok) ==
  IF Len(existing_posts) < MinCorpus
    THEN [text |-> content, posts_list |-> <<>>]
  ELSE LET candidates == SubSeq(existing_posts, 1,
                                IF Len(existing_posts) < CandidateLimit
                                  THEN Len(existing_posts) ELSE CandidateLimit)
           posts_list == [i \in 1..Len(candidates) |-> candidates[i].title]
       IN IF ~request_ok THEN [text |-> content, posts_list |-> posts_list]
          ELSE LET related_posts ==
                     related_posts_from(existing_posts, related_titles_of(lines),
                                        max_links, 1, <<>>)
               IN IF Len(related_posts) = 0
                    THEN [text |-> content, posts_list |-> posts_list]
                    ELSE [text |-> content \o <<[t |-> "h2", n |-> "related"]>>
                                     \o link_items(related_posts)
                                     \o <<[t |-> "/ul", n |-> ""]>>,
                          posts_list |-> posts_list]

\* ------------------------------------------------------ featured image
\* fallback_keyword: str = "music production" (image_manager.py line 30)
FallbackKeyword == "music production"

\* what happens for one keyword: get_best_image_for_keyword returns
\* nothing or raises, download_image raises, upload_media raises, the
\* request that sets the featured image raises, or all of it succeeds
KeywordOutcomes ==
  {"no_image", "search_raises", "download_raises", "upload_raises", "set_raises", "ok"}

\* media['id'] of the upload made for the keyword at position i
MediaId(i) == 100 + i

\* variant: the first keyword that fails ends the search
RECURSIVE try_keywords_stopping(_, _, _, _, _)
try_keywords_stopping(search_keywords, outcomes, i, tried, uploads) ==
  IF i > Len(search_keywords)
    THEN [media_id |-> 0, tried |-> tried, uploads |-> uploads]
  ELSE IF outcomes[i] = "ok"
    THEN [media_id |-> MediaId(i), tried |-> Append(tried, search_keywords[i]),
          uploads |-> Append(uploads, MediaId(i))]
  ELSE [media_id |-> 0, tried |-> Append(tried, search_keywords[i]),
        uploads |-> IF outcomes[i] = "set_raises" THEN Append(uploads, MediaId(i))
                    ELSE uploads]

\* the loop of lines 46-97 from the keyword at position i on: "continue"
\* after no image and after any exception, "return media_id" after the
\* featured image is set; None (here 0) after the last keyword (line 100)
RECURSIVE try_keywords(_, _, _, _, _)
try_keywords(search_keywords, outcomes, i, tried, uploads) ==
  IF i > Len(search_keywords)
    THEN [media_id |-> 0, tried |-> tried, uploads |-> uploads]
  ELSE IF outcomes[i] = "ok"
    THEN [media_id |-> MediaId(i), tried |-> Append(tried, search_keywords[i]),
          uploads |-> Append(uploads, MediaId(i))]
  ELSE try_keywords(search_keywords, outcomes, i + 1,
                    Append(tried, search_keywords[i]),
                    IF outcomes[i] = "set_raises" THEN Append(uploads, MediaId(i))
                    ELSE uploads)

add_featured_image_to_post_stopping(keywords, outcomes) ==
  try_keywords_stopping(keywords \o <<FallbackKeyword>>, outcomes, 1, <<>>, <<>>)

\* add_featured_image_to_post (lines 44-100): the media id returned, the
\* keywords searched in order, the media uploaded on the way
add_featured_image_to_post(keywords, outcomes) ==
  try_keywords(keywords \o <<FallbackKeyword>>, outcomes, 1, <<>>, <<>>)

\* ------------------------------------------------------------------ state
VARIABLES
  file,          \* the persisted store: the serialised topics of themes.json
  themes_data,   \* per process: the in-memory store of its ThemeManager
  pc,            \* per process: position in main, or "api" for a bare ThemeManager
  unused_count,  \* per process: local unused_count of main
  theme,         \* per process: local theme of main (position in the store, 0 = None)
  new_themes,    \* per process: local new_themes of main (<<>> before the refill);
                 \* its dicts are the last Len(new_themes) dicts of the store
  post_id,       \* per process: local post_id of main (0 before create_post returns)
  exit_code,     \* per process: exit status, -1 while the process has not exited
  posts,         \* the posts the CMS holds, in creation order
  prev,          \* per process: how its previous run ended and what it had selected
  pending,       \* bag of the batches generate_new_themes returned, not yet added,
                 \* each with the length the store had when it was generated
  ret,           \* the last call made on the bare ThemeManager and what it returned
  ref,           \* reference model of the store replayed beside the API calls
  objects        \* the bare ThemeManager's store as dict objects: objects[i] is
                 \* the first position that holds the dict position i holds
                 \* (objects[i] = i unless a caller added one dict twice)

vars == <<file, themes_data, pc, unused_count, theme, new_themes, post_id, exit_code,
          posts, prev, pending, ret, ref, objects>>

\* the variables only the store API specification moves
apiVars == <<pending, ret, ref, objects>>
\* the variables only the pipeline specification moves
mainLocals == <<unused_count, theme, new_themes, post_id, exit_code, posts, prev>>

\* positions of main at which the process has exited
Terminal == {"exit_setup", "exit_empty", "exit_article", "exit_post", "exit_mark", "done",
             "crashed", "crash_published", "exit_load"}

NoRet == [op |-> "init", arg |-> 0, val |-> 0, raised |-> FALSE]
NoPrev == [pc |-> "idle", theme |-> 0, topic |-> 0, posts |-> 0]

\* ------------------------------------------------- reference store (C7)
\* an independent in-memory model of the store: the ids in order and the
\* set of positions that are used
RefOf(themes) ==
  [ids |-> [i \in 1..Len(themes) |-> themes[i].id],
   usedAt |-> {i \in 1..Len(themes) : themes[i].used}]

RefAppend(r, batch) ==
  [ids |-> r.ids \o [i \in 1..Len(batch) |-> batch[i].id],
   usedAt |-> r.usedAt \cup {Len(r.ids) + i : i \in {j \in 1..Len(batch) : batch[j].used}}]

\* the first position with the id becomes used, and with it the positions
\* at which the caller added the same dict (objs as in objects)
RefMarkUsed(r, id, objs) ==
  LET hits == {i \in 1..Len(r.ids) : r.ids[i] = id} IN
  IF hits = {} THEN r
  ELSE LET first == CHOOSE i \in hits : \A j \in hits : i <= j IN
       [r EXCEPT !.usedAt = @ \cup {j \in 1..Len(r.ids) : objs[j] = objs[first]}]

RefReset(r) == [r EXCEPT !.usedAt = {}]

RefUnusedCount(r) == Len(r.ids) - Cardinality(r.usedAt)

\* ------------------------------------------------------------------- Init
\* before the first pipeline run: a pre-seeded file, no process
Init ==
  /\ file \in {save_themes(s) : s \in SeedStores}
  /\ themes_data = [p \in Procs |-> <<>>]
  /\ pc = [p \in Procs |-> "idle"]
  /\ unused_count = [p \in Procs |-> 0]
  /\ theme = [p \in Procs |-> 0]
  /\ new_themes = [p \in Procs |-> <<>>]
  /\ post_id = [p \in Procs |-> 0]
  /\ exit_code = [p \in Procs |-> -1]
  /\ posts = <<>>
  /\ prev = [p \in Procs |-> NoPrev]
  /\ pending = EmptyBag
  /\ ret = NoRet
  /\ ref = RefOf(<<>>)
  /\ objects = <<>>

\* ------------------------------------------------------ main, step by step
\* main up to the construction of the ThemeManager (lines 418-456): a
\* missing credential or a failed connection test exits with status 1
\* before the store is used; otherwise ThemeManager() loads the file
MainStart(p) ==
  /\ pc[p] \in {"idle"} \cup Terminal
  /\ Readable(file)
  /\ prev' = [prev EXCEPT ![p] =
                [pc |-> pc[p], theme |-> theme[p],
                 topic |-> IF theme[p] = 0 THEN 0 ELSE themes_data[p][theme[p]],
                 posts |-> Len(posts)]]
  /\ unused_count' = [unused_count EXCEPT ![p] = 0]
  /\ theme' = [theme EXCEPT ![p] = 0]
  /\ new_themes' = [new_themes EXCEPT ![p] = <<>>]
  /\ post_id' = [post_id EXCEPT ![p] = 0]
  /\ exit_code' = [exit_code EXCEPT ![p] = -1]
  /\ themes_data' = [themes_data EXCEPT ![p] = load_themes(file)]
  /\ pc' = [pc EXCEPT ![p] = "loaded"]
  /\ UNCHANGED <<file, posts, apiVars>>

\* sys.exit(1) of lines 427-429 and 453-455
MainSetupFails(p) ==
  /\ pc[p] \in {"idle"} \cup Terminal
  /\ prev' = [prev EXCEPT ![p] =
                [pc |-> pc[p], theme |-> theme[p],
                 topic |-> IF theme[p] = 0 THEN 0 ELSE themes_data[p][theme[p]],
                 posts |-> Len(posts)]]
  /\ unused_count' = [unused_count EXCEPT ![p] = 0]
  /\ theme' = [theme EXCEPT ![p] = 0]
  /\ new_themes' = [new_themes EXCEPT ![p] = <<>>]
  /\ post_id' = [post_id EXCEPT ![p] = 0]
  /\ themes_data' = [themes_data EXCEPT ![p] = <<>>]
  /\ exit_code' = [exit_code EXCEPT ![p] = 1]
  /\ pc' = [pc EXCEPT ![p] = "exit_setup"]
  /\ UNCHANGED <<file, posts, apiVars>>

\* lines 479-492, generation succeeds: unused_count is read (line 479),
\* add_themes extends the store with the generated dicts and _save_themes
\* opens the file for writing, which empties it (line 37)
MainRefill(p) ==
  /\ pc[p] = "loaded"
  /\ get_unused_count(themes_data[p]) <= LowSupply
  /\ \E response \in Responses :
       /\ Len(themes_data[p]) + Len(response) <= MaxThemes
       /\ LET batch == generate_new_themes(themes_data[p], response) IN
            /\ new_themes' = [new_themes EXCEPT ![p] = batch]
            /\ themes_data' = [themes_data EXCEPT ![p] = add_themes(@, batch)]
  /\ unused_count' = [unused_count EXCEPT ![p] = get_unused_count(themes_data[p])]
  /\ file' = EmptyFile
  /\ pc' = [pc EXCEPT ![p] = "refill_save"]
  /\ UNCHANGED <<theme, post_id, exit_code, posts, prev, apiVars>>

\* line 38 inside add_themes, then lines 493-499: the store is written, the
\* loop of lines 495-496 leaves the last new topic in the local theme, and
\* unused_count is read again
MainRefillSaved(p) ==
  /\ pc[p] = "refill_save"
  /\ file' = write_themes(file, themes_data[p])
  /\ theme' = [theme EXCEPT ![p] = IF Len(new_themes[p]) > 0 THEN Len(themes_data[p]) ELSE @]
  /\ unused_count' = [unused_count EXCEPT ![p] = get_unused_count(themes_data[p])]
  /\ pc' = [pc EXCEPT ![p] = "select"]
  /\ UNCHANGED <<themes_data, new_themes, post_id, exit_code, posts, prev, apiVars>>

\* lines 500-502: generate_new_themes raised, the run goes on with the
\* count read at line 479
MainRefillFails(p) ==
  /\ pc[p] = "loaded"
  /\ get_unused_count(themes_data[p]) <= LowSupply
  /\ unused_count' = [unused_count EXCEPT ![p] = get_unused_count(themes_data[p])]
  /\ pc' = [pc EXCEPT ![p] = "select"]
  /\ UNCHANGED <<file, themes_data, theme, new_themes, post_id, exit_code, posts, prev, apiVars>>

\* line 483 false: more than LowSupply unused topics, nothing is generated
MainNoRefill(p) ==
  /\ pc[p] = "loaded"
  /\ get_unused_count(themes_data[p]) > LowSupply
  /\ unused_count' = [unused_count EXCEPT ![p] = get_unused_count(themes_data[p])]
  /\ pc' = [pc EXCEPT ![p] = "select"]
  /\ UNCHANGED <<file, themes_data, theme, new_themes, post_id, exit_code, posts, prev, apiVars>>

\* lines 504-506: no unused topic, sys.exit(0)
MainNoThemes(p) ==
  /\ pc[p] = "select"
  /\ unused_count[p] = 0
  /\ exit_code' = [exit_code EXCEPT ![p] = 0]
  /\ pc' = [pc EXCEPT ![p] = "exit_empty"]
  /\ UNCHANGED <<file, themes_data, unused_count, theme, new_themes, post_id, posts, prev, apiVars>>

\* faulty variant: the first stored topic is taken whether used or not
MainSelect_first(p) ==
  /\ pc[p] = "select"
  /\ unused_count[p] # 0
  /\ theme' = [theme EXCEPT ![p] = get_next_theme_first(themes_data[p])]
  /\ pc' = [pc EXCEPT ![p] = "article"]
  /\ UNCHANGED <<file, themes_data, unused_count, new_themes, post_id, exit_code, posts, prev, apiVars>>

\* lines 508-510: theme = theme_manager.get_next_theme()
MainSelect(p) ==
  /\ pc[p] = "select"
  /\ unused_count[p] # 0
  /\ theme' = [theme EXCEPT ![p] = get_next_theme(themes_data[p])]
  /\ pc' = [pc EXCEPT ![p] = "article"]
  /\ UNCHANGED <<file, themes_data, unused_count, new_themes, post_id, exit_code, posts, prev, apiVars>>

\* lines 512-573: the article is generated; category, tags and internal
\* links follow and none of them can end the run
MainArticle(p) ==
  /\ pc[p] = "article"
  /\ pc' = [pc EXCEPT ![p] = "publish"]
  /\ UNCHANGED <<file, themes_data, unused_count, theme, new_themes, post_id, exit_code, posts, prev, apiVars>>

\* lines 517-519: generate_article raised, sys.exit(1)
MainArticleFails(p) ==
  /\ pc[p] = "article"
  /\ exit_code' = [exit_code EXCEPT ![p] = 1]
  /\ pc' = [pc EXCEPT ![p] = "exit_article"]
  /\ UNCHANGED <<file, themes_data, unused_count, theme, new_themes, post_id, posts, prev, apiVars>>

\* what the CMS and the connection can make of a create_post request that
\* does not end with the post returned whole: the request is refused and
\* nothing is stored; the post is stored and the response is lost on the
\* way (requests.post raises); the post is stored and the response holds
\* its id and no link (result['link'] of line 590 raises KeyError)
FailedAnswers == {"refused", "lost", "no_link"}

\* the post the CMS stores for the topic process p selected
NewPost(p, answer) ==
  [theme_id |-> themes_data[p][theme[p]].id, topic |-> theme[p], by |-> p,
   answer |-> answer]

\* lines 576-595: create_post returned the new post with its id and link
MainCreatePost(p) ==
  /\ pc[p] = "publish"
  /\ Len(posts) < MaxPosts
  /\ posts' = Append(posts, NewPost(p, "ok"))
  /\ post_id' = [post_id EXCEPT ![p] = Len(posts) + 1]
  /\ pc' = [pc EXCEPT ![p] = "image"]
  /\ UNCHANGED <<file, themes_data, unused_count, theme, new_themes, exit_code, prev, apiVars>>

\* faulty variant: the topic is marked used before the outcome of
\* create_post is known, so a failed create_post leaves it consumed
MainCreatePostFails_marked(p) ==
  /\ pc[p] = "publish"
  /\ LET r == mark_as_used(themes_data[p], themes_data[p][theme[p]].id) IN
       /\ themes_data' = [themes_data EXCEPT ![p] = r.themes]
       /\ file' = IF r.saved THEN save_themes(r.themes) ELSE file
  /\ exit_code' = [exit_code EXCEPT ![p] = 1]
  /\ pc' = [pc EXCEPT ![p] = "exit_post"]
  /\ UNCHANGED <<unused_count, theme, new_themes, post_id, posts, prev, apiVars>>

\* lines 581-590 raise and the handler of lines 614-616 ends the run with
\* sys.exit(1): create_post raised with or without the post stored by the
\* CMS, or it returned a post without link, post_id being assigned already
MainCreatePostFails(p) ==
  /\ pc[p] = "publish"
  /\ \E answer \in FailedAnswers :
       /\ answer # "refused" => Len(posts) < MaxPosts
       /\ posts' = IF answer = "refused" THEN posts ELSE Append(posts, NewPost(p, answer))
       /\ post_id' = [post_id EXCEPT ![p] = IF answer = "no_link" THEN Len(posts) + 1 ELSE @]
  /\ exit_code' = [exit_code EXCEPT ![p] = 1]
  /\ pc' = [pc EXCEPT ![p] = "exit_post"]
  /\ UNCHANGED <<file, themes_data, unused_count, theme, new_themes, prev, apiVars>>

\* faulty variant: an exception of the featured image step is not caught
\* at lines 606-608 and reaches the handler of lines 614-616
MainFinish_imageAborts(p) ==
  /\ pc[p] = "image"
  /\ \E image \in {"disabled", "set", "none", "raised"} :
       LET r == IF image = "raised"
                  THEN [themes |-> themes_data[p], saved |-> FALSE, raised |-> TRUE]
                  ELSE mark_as_used(themes_data[p], themes_data[p][theme[p]].id) IN
       /\ themes_data' = [themes_data EXCEPT ![p] = r.themes]
       /\ new_themes' = [new_themes EXCEPT ![p] =
                           SubSeq(r.themes, Len(r.themes) - Len(@) + 1, Len(r.themes))]
       /\ file' = IF r.saved THEN EmptyFile ELSE file
       /\ exit_code' = [exit_code EXCEPT ![p] = IF r.raised THEN 1 ELSE @]
       /\ pc' = [pc EXCEPT ![p] = IF r.raised THEN "exit_mark" ELSE "mark_save"]
  /\ UNCHANGED <<unused_count, theme, post_id, posts, prev, apiVars>>

\* variant that would close the race: the file is read again before the
\* topic is marked, so what other runs have saved is kept
MainFinish_reloading(p) ==
  /\ pc[p] = "image"
  /\ \E image \in {"disabled", "set", "none", "raised"} :
       LET r == IF Readable(file)
                  THEN mark_as_used(load_themes(file), themes_data[p][theme[p]].id)
                  ELSE [themes |-> themes_data[p], saved |-> FALSE, raised |-> TRUE] IN
       /\ themes_data' = [themes_data EXCEPT ![p] = r.themes]
       /\ file' = IF r.saved THEN EmptyFile ELSE file
       /\ exit_code' = [exit_code EXCEPT ![p] = IF r.raised THEN 1 ELSE @]
       /\ pc' = [pc EXCEPT ![p] = IF r.raised THEN "exit_mark" ELSE "mark_save"]
  /\ UNCHANGED <<unused_count, theme, new_themes, post_id, posts, prev, apiVars>>

\* lines 597-611 up to line 37 inside mark_as_used: the featured image
\* step, whose every outcome is swallowed (lines 606-608), then
\* theme_manager.mark_as_used(theme['id']) sets the flag in memory and
\* _save_themes opens the file for writing, which empties it; a raise of
\* mark_as_used reaches the handler of lines 614-616.  The dicts of
\* new_themes are the ones add_themes put at the end of the store
\* (themes.extend, theme_manager.py line 183), so new_themes shows the flag
\* when the marked topic was generated in this run
MainFinish(p) ==
  /\ pc[p] = "image"
  /\ \E image \in {"disabled", "set", "none", "raised"} :
       LET r == mark_as_used(themes_data[p], themes_data[p][theme[p]].id) IN
       /\ themes_data' = [themes_data EXCEPT ![p] = r.themes]
       /\ new_themes' = [new_themes EXCEPT ![p] =
                           SubSeq(r.themes, Len(r.themes) - Len(@) + 1, Len(r.themes))]
       /\ file' = IF r.saved THEN EmptyFile ELSE file
       /\ exit_code' = [exit_code EXCEPT ![p] = IF r.raised THEN 1 ELSE @]
       /\ pc' = [pc EXCEPT ![p] = IF r.raised THEN "exit_mark" ELSE "mark_save"]
  /\ UNCHANGED <<unused_count, theme, post_id, posts, prev, apiVars>>

\* line 38 inside mark_as_used, then lines 612-618: the store is written
\* and main ends
MainFinishSaved(p) ==
  /\ pc[p] = "mark_save"
  /\ file' = write_themes(file, themes_data[p])
  /\ exit_code' = [exit_code EXCEPT ![p] = 0]
  /\ pc' = [pc EXCEPT ![p] = "done"]
  /\ UNCHANGED <<themes_data, unused_count, theme, new_themes, post_id, posts, prev, apiVars>>

\* pipeline runs one after the other: every run is process 1
Next ==
  \/ MainStart(1)
  \/ MainSetupFails(1)
  \/ MainRefill(1)
  \/ MainRefillSaved(1)
  \/ MainRefillFails(1)
  \/ MainNoRefill(1)
  \/ MainNoThemes(1)
  \/ MainSelect(1)
  \/ MainArticle(1)
  \/ MainArticleFails(1)
  \/ MainCreatePost(1)
  \/ MainCreatePostFails(1)
  \/ MainFinish(1)
  \/ MainFinishSaved(1)

Spec == Init /\ [][Next]_vars

\* ---------------------------------------------- a store that cannot be read
\* before the first run the file may also be missing or hold no JSON
InitFatal ==
  /\ file \in {save_themes(s) : s \in SeedStores} \cup {NoFile, CorruptFile}
  /\ themes_data = [p \in Procs |-> <<>>]
  /\ pc = [p \in Procs |-> "idle"]
  /\ unused_count = [p \in Procs |-> 0]
  /\ theme = [p \in Procs |-> 0]
  /\ new_themes = [p \in Procs |-> <<>>]
  /\ post_id = [p \in Procs |-> 0]
  /\ exit_code = [p \in Procs |-> -1]
  /\ posts = <<>>
  /\ prev = [p \in Procs |-> NoPrev]
  /\ pending = EmptyBag
  /\ ret = NoRet
  /\ ref = RefOf(<<>>)
  /\ objects = <<>>

\* variant: a file that cannot be read is taken as an empty store
MainLoadFails_asEmpty(p) ==
  /\ pc[p] \in {"idle"} \cup Terminal
  /\ ~Readable(file)
  /\ prev' = [prev EXCEPT ![p] =
                [pc |-> pc[p], theme |-> theme[p],
                 topic |-> IF theme[p] = 0 THEN 0 ELSE themes_data[p][theme[p]],
                 posts |-> Len(posts)]]
  /\ unused_count' = [unused_count EXCEPT ![p] = 0]
  /\ theme' = [theme EXCEPT ![p] = 0]
  /\ new_themes' = [new_themes EXCEPT ![p] = <<>>]
  /\ post_id' = [post_id EXCEPT ![p] = 0]
  /\ themes_data' = [themes_data EXCEPT ![p] = <<>>]
  /\ exit_code' = [exit_code EXCEPT ![p] = -1]
  /\ pc' = [pc EXCEPT ![p] = "loaded"]
  /\ UNCHANGED <<file, posts, apiVars>>

\* line 432 with the credentials present: ThemeManager() raises
\* FileNotFoundError or JSONDecodeError, nothing catches it and the
\* interpreter exits with status 1
MainLoadFails(p) ==
  /\ pc[p] \in {"idle"} \cup Terminal
  /\ ~Readable(file)
  /\ prev' = [prev EXCEPT ![p] =
                [pc |-> pc[p], theme |-> theme[p],
                 topic |-> IF theme[p] = 0 THEN 0 ELSE themes_data[p][theme[p]],
                 posts |-> Len(posts)]]
  /\ unused_count' = [unused_count EXCEPT ![p] = 0]
  /\ theme' = [theme EXCEPT ![p] = 0]
  /\ new_themes' = [new_themes EXCEPT ![p] = <<>>]
  /\ post_id' = [post_id EXCEPT ![p] = 0]
  /\ themes_data' = [themes_data EXCEPT ![p] = <<>>]
  /\ exit_code' = [exit_code EXCEPT ![p] = 1]
  /\ pc' = [pc EXCEPT ![p] = "exit_load"]
  /\ UNCHANGED <<file, posts, apiVars>>

NextFatal ==
  \/ MainStart(1)
  \/ MainSetupFails(1)
  \/ MainLoadFails(1)
  \/ MainRefill(1)
  \/ MainRefillSaved(1)
  \/ MainRefillFails(1)
  \/ MainNoRefill(1)
  \/ MainNoThemes(1)
  \/ MainSelect(1)
  \/ MainArticle(1)
  \/ MainArticleFails(1)
  \/ MainCreatePost(1)
  \/ MainCreatePostFails(1)
  \/ MainFinish(1)
  \/ MainFinishSaved(1)

SpecFatal == InitFatal /\ [][NextFatal]_vars

\* ------------------------------------------------------ runs that can stop
\* the process is killed somewhere between the load of the store and the
\* end of main: the exit status is that of a kill and the file stays as it
\* is at that moment.  A kill between lines 37 and 38 of a save leaves the
\* file empty; a kill after mark_as_used has returned and before main has
\* ended (lines 612-618) leaves the file written, the topic marked used.  A
\* stop after create_post returned and before mark_as_used has written the
\* file is told apart
MainCrash(p) ==
  /\ pc[p] \in {"loaded", "refill_save", "select", "article", "publish", "image", "mark_save"}
  /\ \E written \in {FALSE} \cup {pc[p] = "mark_save"} :
       /\ file' = IF written THEN write_themes(file, themes_data[p]) ELSE file
       /\ pc' = [pc EXCEPT ![p] = IF pc[p] \in {"image", "mark_save"} /\ ~written
                                     THEN "crash_published" ELSE "crashed"]
  /\ exit_code' = [exit_code EXCEPT ![p] = 137]
  /\ UNCHANGED <<themes_data, unused_count, theme, new_themes, post_id, posts, prev, apiVars>>

\* pipeline runs one after the other, any of which may be killed
NextCrash ==
  \/ MainStart(1)
  \/ MainSetupFails(1)
  \/ MainRefill(1)
  \/ MainRefillSaved(1)
  \/ MainRefillFails(1)
  \/ MainNoRefill(1)
  \/ MainNoThemes(1)
  \/ MainSelect(1)
  \/ MainArticle(1)
  \/ MainArticleFails(1)
  \/ MainCreatePost(1)
  \/ MainCreatePostFails(1)
  \/ MainFinish(1)
  \/ MainFinishSaved(1)
  \/ MainCrash(1)
  \/ MainLoadFails(1)

SpecCrash == Init /\ [][NextCrash]_vars

\* --------------------------------------------- two runs at the same time
\* each process is one invocation of main; nothing orders the steps of the
\* two processes, and the store file is their only shared state
FirstStart(p) == pc[p] = "idle" /\ MainStart(p)

FirstSetupFails(p) == pc[p] = "idle" /\ MainSetupFails(p)

\* line 432 when the other process is between lines 37 and 38, or when two
\* saves have left a text that is not JSON
FirstLoadFails(p) == pc[p] = "idle" /\ MainLoadFails(p)

NextRace ==
  \E p \in Procs :
    \/ FirstStart(p)
    \/ FirstSetupFails(p)
    \/ FirstLoadFails(p)
    \/ MainRefill(p)
    \/ MainRefillSaved(p)
    \/ MainRefillFails(p)
    \/ MainNoRefill(p)
    \/ MainNoThemes(p)
    \/ MainSelect(p)
    \/ MainArticle(p)
    \/ MainArticleFails(p)
    \/ MainCreatePost(p)
    \/ MainCreatePostFails(p)
    \/ MainFinish(p)
    \/ MainFinishSaved(p)

SpecRace == Init /\ [][NextRace]_vars

\* ------------------------------------ the refill on the response text
\* lines 479-492 with the text of the response: unused_count is read,
\* generate_new_themes returns, then add_themes extends the store and
\* opens the file
GenRefill(p) ==
  /\ pc[p] = "loaded"
  /\ get_unused_count(themes_data[p]) <= LowSupply
  /\ \E d \in ResponseTexts :
       LET g == generate_from_text(themes_data[p], Render(d))
           themes == add_themes(themes_data[p], g.new_themes)
       IN /\ ~g.raised
          /\ Len(themes) <= MaxThemes
          /\ new_themes' = [new_themes EXCEPT ![p] = g.new_themes]
          /\ themes_data' = [themes_data EXCEPT ![p] = themes]
          /\ ret' = [op |-> "generate_new_themes", arg |-> d,
                     val |-> g.new_themes, raised |-> FALSE]
  /\ unused_count' = [unused_count EXCEPT ![p] = get_unused_count(themes_data[p])]
  /\ file' = EmptyFile
  /\ pc' = [pc EXCEPT ![p] = "refill_save"]
  /\ UNCHANGED <<theme, post_id, exit_code, posts, prev, pending, ref, objects>>

\* lines 483-502 when generate_new_themes raises on the text: add_themes is
\* not reached, the except clause prints and the run goes on
GenRefillFails(p) ==
  /\ pc[p] = "loaded"
  /\ get_unused_count(themes_data[p]) <= LowSupply
  /\ \E d \in ResponseTexts :
       LET g == generate_from_text(themes_data[p], Render(d)) IN
       /\ g.raised
       /\ ret' = [op |-> "generate_new_themes", arg |-> d,
                  val |-> g.new_themes, raised |-> TRUE]
  /\ unused_count' = [unused_count EXCEPT ![p] = get_unused_count(themes_data[p])]
  /\ pc' = [pc EXCEPT ![p] = "select"]
  /\ UNCHANGED <<file, themes_data, theme, new_themes, post_id, exit_code, posts, prev, pending, ref, objects>>

\* one invocation of main.  A pre-seeded store holds at most LowSupply
\* unused topics, so the first invocation always asks for new topics
NextGen ==
  \/ FirstStart(1)
  \/ FirstSetupFails(1)
  \/ GenRefill(1)
  \/ MainRefillSaved(1)
  \/ GenRefillFails(1)
  \/ MainNoThemes(1)
  \/ MainSelect(1)
  \/ MainArticle(1)
  \/ MainArticleFails(1)
  \/ MainCreatePost(1)
  \/ MainCreatePostFails(1)
  \/ MainFinish(1)
  \/ MainFinishSaved(1)

SpecGen == Init /\ [][NextGen]_vars

\* ------------------------------- main from the article to the post
\* lines 512-595 step by step.  ret holds the working data of the run: what
\* the collaborators answered (arg), the article, the category id, the tag
\* ids and the calls of create_post with their arguments (val)
StepCompletions ==
  { d \in Completions :
      /\ d.style = 1 /\ d.order = "fwd" /\ ~d.prose
      /\ d.st["TITLE"] \in {"block", "open_only"}
      /\ d.st["CONTENT"] \in {"block", "absent"}
      /\ d.st["TAGS"] \in {"block", "absent"}
      /\ d.st["DESCRIPTION"] = "absent" }

\* "max_links=2" of line 567
PipelineMaxLinks == 2

\* lines 514-516: generate_article returned
StepArticle(p) ==
  /\ pc[p] = "article"
  /\ \E d \in StepCompletions :
       ret' = [op |-> "run",
               arg |-> [completion |-> d, category |-> "", tags |-> "", links |-> ""],
               val |-> [article |-> generate_article(themes_data[p][theme[p]],
                                                     RenderCompletion(d)),
                        category_id |-> 0, tag_ids |-> <<>>, create_post |-> <<>>],
               raised |-> FALSE]
  /\ pc' = [pc EXCEPT ![p] = "category"]
  /\ UNCHANGED <<file, themes_data, mainLocals, pending, ref, objects>>

\* lines 517-519: generate_article raised, sys.exit(1)
StepArticleFails(p) ==
  /\ pc[p] = "article"
  /\ ret' = [op |-> "run", arg |-> 0, val |-> 0, raised |-> TRUE]
  /\ exit_code' = [exit_code EXCEPT ![p] = 1]
  /\ pc' = [pc EXCEPT ![p] = "exit_article"]
  /\ UNCHANGED <<file, themes_data, unused_count, theme, new_themes, post_id, posts, prev, pending, ref, objects>>

\* variant: a failed category request ends the run like a failed article
StepCategory_aborting(p) ==
  /\ pc[p] = "category"
  /\ \E reply \in {Text("DTM"), Text("Other")}, ok \in BOOLEAN :
       /\ ret' = [ret EXCEPT !.arg.category = IF ok THEN reply[1].n ELSE "failed",
                             !.val.category_id = determine_category(reply, ok)]
       /\ pc' = [pc EXCEPT ![p] = IF ok THEN "tags" ELSE "exit_article"]
       /\ exit_code' = [exit_code EXCEPT ![p] = IF ok THEN exit_code[p] ELSE 1]
  /\ UNCHANGED <<file, themes_data, unused_count, theme, new_themes, post_id, posts, prev, pending, ref, objects>>

\* lines 536-544: determine_category with whatever the service answers
StepCategory(p) ==
  /\ pc[p] = "category"
  /\ \E reply \in {Text("DTM"), Text("Other")}, ok \in BOOLEAN :
       /\ ret' = [ret EXCEPT !.arg.category = IF ok THEN reply[1].n ELSE "failed",
                             !.val.category_id = determine_category(reply, ok)]
       /\ pc' = [pc EXCEPT ![p] = "tags"]
       /\ exit_code' = exit_code
  /\ UNCHANGED <<file, themes_data, unused_count, theme, new_themes, post_id, posts, prev, pending, ref, objects>>

\* lines 547-555: no tag text, nothing is asked; otherwise
\* get_or_create_tags finds or creates the tag (id 11), gets no id from
\* the CMS, or raises, which leaves tag_ids empty
StepTags(p) ==
  /\ pc[p] = "tags"
  /\ \E outcome \in IF Len(ret.val.article.tags) = 0 THEN {"no_tags"}
                     ELSE {"found", "no_id", "raised"} :
       ret' = [ret EXCEPT !.arg.tags = outcome,
                          !.val.tag_ids = IF outcome = "found" THEN <<11>> ELSE <<>>]
  /\ pc' = [pc EXCEPT ![p] = "links"]
  /\ UNCHANGED <<file, themes_data, mainLocals, pending, ref, objects>>

\* lines 558-573: get_all_posts raises, or returns n posts; with posts,
\* add_internal_links replaces the content
StepLinks(p) ==
  /\ pc[p] = "links"
  /\ \/ /\ ret' = [ret EXCEPT !.arg.links = "posts_failed"]
     \/ \E n \in {0, 2, MinCorpus}, ok \in BOOLEAN :
          ret' = [ret EXCEPT
                    !.arg.links = IF n = 0 THEN "no_posts"
                                  ELSE IF n < MinCorpus THEN "few_posts"
                                  ELSE IF ok THEN "answered" ELSE "request_failed",
                    !.val.article.content =
                       IF n = 0 THEN @
                       ELSE add_internal_links(@, ExistingPosts(n), PipelineMaxLinks,
                                               <<Text("1")>>, ok).text]
  /\ pc' = [pc EXCEPT ![p] = "publish"]
  /\ UNCHANGED <<file, themes_data, mainLocals, pending, ref, objects>>

\* the arguments of the create_post call of lines 581-587
CreatePostCall(r) ==
  [title |-> r.val.article.title, content |-> r.val.article.content,
   categories |-> <<r.val.category_id>>, tags |-> r.val.tag_ids]

\* lines 576-595: create_post returned the new post
StepCreatePost(p) ==
  /\ pc[p] = "publish"
  /\ Len(posts) < MaxPosts
  /\ ret' = [ret EXCEPT !.val.create_post = Append(@, CreatePostCall(ret))]
  /\ posts' = Append(posts, NewPost(p, "ok"))
  /\ post_id' = [post_id EXCEPT ![p] = Len(posts) + 1]
  /\ pc' = [pc EXCEPT ![p] = "image"]
  /\ UNCHANGED <<file, themes_data, unused_count, theme, new_themes, exit_code, prev, pending, ref, objects>>

\* lines 614-616: create_post was called and lines 581-590 raised, sys.exit(1)
StepCreatePostFails(p) ==
  /\ pc[p] = "publish"
  /\ ret' = [ret EXCEPT !.val.create_post = Append(@, CreatePostCall(ret))]
  /\ \E answer \in FailedAnswers :
       /\ answer # "refused" => Len(posts) < MaxPosts
       /\ posts' = IF answer = "refused" THEN posts ELSE Append(posts, NewPost(p, answer))
       /\ post_id' = [post_id EXCEPT ![p] = IF answer = "no_link" THEN Len(posts) + 1 ELSE @]
  /\ exit_code' = [exit_code EXCEPT ![p] = 1]
  /\ pc' = [pc EXCEPT ![p] = "exit_post"]
  /\ UNCHANGED <<file, themes_data, unused_count, theme, new_themes, prev, pending, ref, objects>>

\* one invocation of main, the steps between article and post one by one;
\* as in NextGen the first invocation always asks for new topics
NextSteps ==
  \/ FirstStart(1)
  \/ FirstSetupFails(1)
  \/ MainRefill(1)
  \/ MainRefillSaved(1)
  \/ MainRefillFails(1)
  \/ MainNoThemes(1)
  \/ MainSelect(1)
  \/ StepArticle(1)
  \/ StepArticleFails(1)
  \/ StepCategory(1)
  \/ StepTags(1)
  \/ StepLinks(1)
  \/ StepCreatePost(1)
  \/ StepCreatePostFails(1)
  \/ MainFinish(1)
  \/ MainFinishSaved(1)

SpecSteps == Init /\ [][NextSteps]_vars

\* ------------------------------------------- the featured image step
\* lines 597-612 with the keywords tried one by one: without an
\* ImageManager nothing is called; then mark_as_used as in MainFinish
ImageFinish(p) ==
  /\ pc[p] = "image"
  /\ LET keywords == themes_data[p][theme[p]].keywords
         r == mark_as_used(themes_data[p], themes_data[p][theme[p]].id)
     IN /\ \/ ret' = [op |-> "no_image_manager", arg |-> [keywords |-> keywords],
                       val |-> 0, raised |-> FALSE]
           \/ \E outcomes \in [1..(Len(keywords) + 1) -> KeywordOutcomes] :
                ret' = [op |-> "add_featured_image_to_post",
                        arg |-> [keywords |-> keywords, outcomes |-> outcomes],
                        val |-> add_featured_image_to_post(keywords, outcomes),
                        raised |-> FALSE]
        /\ themes_data' = [themes_data EXCEPT ![p] = r.themes]
        /\ new_themes' = [new_themes EXCEPT ![p] =
                            SubSeq(r.themes, Len(r.themes) - Len(@) + 1, Len(r.themes))]
        /\ file' = IF r.saved THEN EmptyFile ELSE file
        /\ exit_code' = [exit_code EXCEPT ![p] = IF r.raised THEN 1 ELSE @]
        /\ pc' = [pc EXCEPT ![p] = IF r.raised THEN "exit_mark" ELSE "mark_save"]
  /\ UNCHANGED <<unused_count, theme, post_id, posts, prev, pending, ref, objects>>

\* one invocation of main with the image step in detail; as in NextGen the
\* first invocation always asks for new topics
NextImage ==
  \/ FirstStart(1)
  \/ FirstSetupFails(1)
  \/ MainRefill(1)
  \/ MainRefillSaved(1)
  \/ MainRefillFails(1)
  \/ MainNoThemes(1)
  \/ MainSelect(1)
  \/ MainArticle(1)
  \/ MainArticleFails(1)
  \/ MainCreatePost(1)
  \/ MainCreatePostFails(1)
  \/ ImageFinish(1)
  \/ MainFinishSaved(1)

SpecImage == Init /\ [][NextImage]_vars

\* ------------------------------------ the ArticleGenerator, call by call
\* one call of a method of an ArticleGenerator: the arguments and what the
\* generative service answers are fixed at the start, the call is the step;
\* the store plays no part
Call(fn, arg) == [op |-> "call", arg |-> [fn |-> fn, in |-> arg], val |-> 0, raised |-> FALSE]

\* the request of generate_article answers with a completion, or fails
GenerateArticleCalls ==
  { Call("generate_article", [theme |-> t, completion |-> d, request_ok |-> ok]) :
      t \in SeedTopics, d \in Completions, ok \in {TRUE} }
    \cup
  { Call("generate_article", [theme |-> t, completion |-> d, request_ok |-> FALSE]) :
      t \in SeedTopics,
      d \in { c \in Completions : c.style = 1 /\ \A n \in TagNames : c.st[n] = "absent" } }

\* what the service answers when asked for a category: a name of the
\* table, the same in another case, a name followed by an explanation,
\* another word, nothing
CategoryReplies ==
  { Text(k) : k \in DOMAIN CATEGORY_MAP }
    \cup { Text("dtm"), Text("Other"), <<W("DTM"), Ws, W("more")>>, <<>> }

\* the reply with whitespace before and after it or not
DetermineCategoryCalls ==
  { Call("determine_category", [reply |-> r, lead |-> l, trail |-> t, request_ok |-> ok]) :
      r \in CategoryReplies, l \in BOOLEAN, t \in BOOLEAN, ok \in BOOLEAN }

RenderReply(d) ==
  (IF d.lead THEN <<Ws>> ELSE <<>>) \o d.reply \o (IF d.trail THEN <<Ws>> ELSE <<>>)

\* the lengths of the list of existing posts: around MinCorpus and around
\* CandidateLimit
PostCounts == (0..(MinCorpus + 1)) \cup (CandidateLimit..(CandidateLimit + MaxBeyond))

\* a line of the response of the related-content request: the title of an
\* existing post (the first, second, third, the one after the candidates),
\* with or without blanks around it, a title no post has, an empty line
ResponseLines ==
  { Text("1"), <<Ws, W("2"), Ws>>, Text("3"), Text(ToString(CandidateLimit + 1)),
    Text("unknown"), <<>> }

AddInternalLinksCalls ==
  { Call("add_internal_links",
         [content |-> Text("body"), posts |-> n, max_links |-> ml, lines |-> ls,
          request_ok |-> ok]) :
      n \in PostCounts, ml \in 0..MaxLinksArg,
      ls \in SeqUpTo(ResponseLines, MaxLines), ok \in BOOLEAN }

InitCalls ==
  /\ file = <<>>
  /\ themes_data = [p \in Procs |-> <<>>]
  /\ pc = [p \in Procs |-> IF p = 1 THEN "calls" ELSE "idle"]
  /\ unused_count = [p \in Procs |-> 0]
  /\ theme = [p \in Procs |-> 0]
  /\ new_themes = [p \in Procs |-> <<>>]
  /\ post_id = [p \in Procs |-> 0]
  /\ exit_code = [p \in Procs |-> -1]
  /\ posts = <<>>
  /\ prev = [p \in Procs |-> NoPrev]
  /\ pending = EmptyBag
  /\ \/ ret \in GenerateArticleCalls
     \/ ret \in DetermineCategoryCalls
     \/ ret \in AddInternalLinksCalls
  /\ ref = RefOf(<<>>)
  /\ objects = <<>>

\* generate_article when the request returns a completion
CallGenerateArticle ==
  /\ pc[1] = "calls"
  /\ ret.op = "call"
  /\ ret.arg.fn = "generate_article"
  /\ ret.arg.in.request_ok
  /\ ret' = [op |-> "generate_article", arg |-> ret.arg.in,
             val |-> generate_article(ret.arg.in.theme,
                                      RenderCompletion(ret.arg.in.completion)),
             raised |-> FALSE]
  /\ UNCHANGED <<file, themes_data, pc, mainLocals, pending, ref, objects>>

\* generate_article when generate_content raises: nothing catches it
CallGenerateArticleFails ==
  /\ pc[1] = "calls"
  /\ ret.op = "call"
  /\ ret.arg.fn = "generate_article"
  /\ ~ret.arg.in.request_ok
  /\ ret' = [op |-> "generate_article", arg |-> ret.arg.in, val |-> 0, raised |-> TRUE]
  /\ UNCHANGED <<file, themes_data, pc, mainLocals, pending, ref, objects>>

\* determine_category: returns in every case
CallDetermineCategory ==
  /\ pc[1] = "calls"
  /\ ret.op = "call"
  /\ ret.arg.fn = "determine_category"
  /\ ret' = [op |-> "determine_category", arg |-> ret.arg.in,
             val |-> determine_category(RenderReply(ret.arg.in), ret.arg.in.request_ok),
             raised |-> FALSE]
  /\ UNCHANGED <<file, themes_data, pc, mainLocals, pending, ref, objects>>

\* add_internal_links: returns in every case
CallAddInternalLinks ==
  /\ pc[1] = "calls"
  /\ ret.op = "call"
  /\ ret.arg.fn = "add_internal_links"
  /\ ret' = [op |-> "add_internal_links", arg |-> ret.arg.in,
             val |-> add_internal_links(ret.arg.in.content,
                                        ExistingPosts(ret.arg.in.posts),
                                        ret.arg.in.max_links, ret.arg.in.lines,
                                        ret.arg.in.request_ok),
             raised |-> FALSE]
  /\ UNCHANGED <<file, themes_data, pc, mainLocals, pending, ref, objects>>

NextCalls ==
  \/ CallGenerateArticle
  \/ CallGenerateArticleFails
  \/ CallDetermineCategory
  \/ CallAddInternalLinks

SpecCalls == InitCalls /\ [][NextCalls]_vars

\* ----------------------------------------- images inside the article body
\* most </h2> closing tags in a content
MaxH2 == 3
\* most keywords passed to insert_images_into_content
MaxKeywords == 3
\* largest max_images passed
MaxImagesArg == 2

\* the article bodies: an optional lead paragraph, then sections made of a
\* heading and an optional paragraph
RECURSIVE SectionsUpTo(_)
SectionsUpTo(n) ==
  IF n = 0 THEN {""}
  ELSE SectionsUpTo(n - 1)
         \cup { s \o "<h2>A</h2>" \o b : s \in SectionsUpTo(n - 1), b \in {"", "<p>x</p>"} }

Contents == { lead \o s : lead \in {"", "<p>intro</p>"}, s \in SectionsUpTo(MaxH2) }

InlineKeywords == <<"mixing", "studio", "microphone", "guitar", "piano">>

\* what searching, downloading and uploading come to for one keyword
InlineOutcomes == {"no_image", "raises", "ok"}

\* the entry appended to uploaded_images for a keyword (lines 163-168)
UploadedImage(keyword) ==
  [url |-> "https://wp.example/" \o keyword \o ".jpg",
   alt |-> keyword,
   photographer |-> "Ann",
   photographer_url |-> "https://unsplash.example/ann"]

\* re.finditer(r'</h2>', content): the end offsets of the matches, scanning
\* from character i, matches not overlapping
RECURSIVE h2_matches(_, _)
h2_matches(content, i) ==
  IF i + 4 > Len(content) THEN <<>>
  ELSE IF SubSeq(content, i, i + 4) = "</h2>"
    THEN <<i + 4>> \o h2_matches(content, i + 5)
    ELSE h2_matches(content, i + 1)

min(a, b) == IF a <= b THEN a ELSE b

\* the loop of lines 136-173 from keyword i on
RECURSIVE upload_images(_, _, _, _, _)
upload_images(keywords, outcomes, num_images, i, uploaded_images) ==
  IF i > Len(keywords) \/ Len(uploaded_images) >= num_images THEN uploaded_images
  ELSE IF outcomes[i] = "ok"
    THEN upload_images(keywords, outcomes, num_images, i + 1,
                       Append(uploaded_images, UploadedImage(keywords[i])))
    ELSE upload_images(keywords, outcomes, num_images, i + 1, uploaded_images)

\* the figure block of lines 192-198
img_html(img_data) ==
  "\n\n<figure class=\"wp-block-image size-large\">\n    <img src=\""
    \o img_data.url \o "\" alt=\"" \o img_data.alt
    \o "\" />\n    <figcaption>Photo by <a href=\"" \o img_data.photographer_url
    \o "\" target=\"_blank\" rel=\"noopener\">" \o img_data.photographer
    \o "</a> on Unsplash</figcaption>\n</figure>\n"

\* the loop of lines 181-201 from image i on: the block goes into result at
\* the end offset the i-th match has in content
RECURSIVE insert_loop(_, _, _, _, _)
insert_loop(result, matches, uploaded_images, num_images, i) ==
  IF i > num_images \/ i > Len(uploaded_images) \/ i > Len(matches) THEN result
  ELSE LET insert_position == matches[i] IN
       insert_loop(SubSeq(result, 1, insert_position)
                     \o img_html(uploaded_images[i])
                     \o SubSeq(result, insert_position + 1, Len(result)),
                   matches, uploaded_images, num_images, i + 1)

\* insert_images_into_content (lines 102-204): the text returned and the
\* images uploaded on the way
insert_images_into_content(content, keywords, outcomes, max_images) ==
  LET matches == h2_matches(content, 1) IN
  IF Len(matches) = 0 THEN [content |-> content, uploaded |-> <<>>]
  ELSE LET num_images == min(Len(matches), max_images)
           uploaded_images == upload_images(keywords, outcomes, num_images, 1, <<>>)
       IN IF Len(uploaded_images) = 0 THEN [content |-> content, uploaded |-> <<>>]
          ELSE [content |-> insert_loop(content, matches, uploaded_images, num_images, 1),
                uploaded |-> uploaded_images]

InsertImagesCalls ==
  { Call("insert_images_into_content",
         [content |-> c, keywords |-> SubSeq(InlineKeywords, 1, n), outcomes |-> o,
          max_images |-> mi]) :
      c \in Contents, mi \in 0..MaxImagesArg,
      n \in 0..MaxKeywords, o \in UNION {[1..k -> InlineOutcomes] : k \in 0..MaxKeywords} }

InitInsert ==
  /\ file = <<>>
  /\ themes_data = [p \in Procs |-> <<>>]
  /\ pc = [p \in Procs |-> IF p = 1 THEN "calls" ELSE "idle"]
  /\ unused_count = [p \in Procs |-> 0]
  /\ theme = [p \in Procs |-> 0]
  /\ new_themes = [p \in Procs |-> <<>>]
  /\ post_id = [p \in Procs |-> 0]
  /\ exit_code = [p \in Procs |-> -1]
  /\ posts = <<>>
  /\ prev = [p \in Procs |-> NoPrev]
  /\ pending = EmptyBag
  /\ ret \in {r \in InsertImagesCalls : Len(r.arg.in.outcomes) = Len(r.arg.in.keywords)}
  /\ ref = RefOf(<<>>)
  /\ objects = <<>>

\* insert_images_into_content: returns in every case
CallInsertImages ==
  /\ pc[1] = "calls"
  /\ ret.op = "call"
  /\ ret.arg.fn = "insert_images_into_content"
  /\ ret' = [op |-> "insert_images_into_content", arg |-> ret.arg.in,
             val |-> insert_images_into_content(ret.arg.in.content, ret.arg.in.keywords,
                                                ret.arg.in.outcomes, ret.arg.in.max_images),
             raised |-> FALSE]
  /\ UNCHANGED <<file, themes_data, pc, mainLocals, pending, ref, objects>>

NextInsert == CallInsertImages

SpecInsert == InitInsert /\ [][NextInsert]_vars

\* ------------------------------------------- the store API, call by call
\* a ThemeManager constructed on a pre-seeded file, its methods then called
\* in any order by a caller that keeps the batches generate_new_themes
\* returned; every batch object is passed to add_themes at most once
InitStore ==
  /\ file \in {save_themes(s) : s \in SeedStores}
  /\ themes_data = [p \in Procs |-> IF p = 1 THEN load_themes(file) ELSE <<>>]
  /\ pc = [p \in Procs |-> IF p = 1 THEN "api" ELSE "idle"]
  /\ unused_count = [p \in Procs |-> 0]
  /\ theme = [p \in Procs |-> 0]
  /\ new_themes = [p \in Procs |-> <<>>]
  /\ post_id = [p \in Procs |-> 0]
  /\ exit_code = [p \in Procs |-> -1]
  /\ posts = <<>>
  /\ prev = [p \in Procs |-> NoPrev]
  /\ pending = EmptyBag
  /\ ret = NoRet
  /\ ref = RefOf(load_themes(file))
  /\ objects = [i \in 1..Len(file) |-> i]

\* the ids the caller passes to mark_as_used: ids of the store and others
MarkIds == 0..(MaxSeedId + 1)

\* a new ThemeManager on the same file (__init__: _load_themes): json.load
\* builds a dict of its own for every position
ApiConstruct ==
  /\ pc[1] = "api"
  /\ themes_data' = [themes_data EXCEPT ![1] = load_themes(file)]
  /\ objects' = [i \in 1..Len(file) |-> i]
  /\ ret' = [op |-> "construct", arg |-> 0, val |-> 0, raised |-> FALSE]
  /\ UNCHANGED <<file, pc, mainLocals, pending, ref>>

ApiGetNextTheme ==
  /\ pc[1] = "api"
  /\ ret' = [op |-> "get_next_theme", arg |-> 0,
             val |-> get_next_theme(themes_data[1]), raised |-> FALSE]
  /\ UNCHANGED <<file, themes_data, pc, mainLocals, pending, ref, objects>>

\* mark_as_used: theme['used'] = True (line 66) is set on a dict, so every
\* position of the store that holds this dict shows it, in memory and in
\* the file that is then saved
ApiMarkAsUsed ==
  /\ pc[1] = "api"
  /\ \E theme_id \in MarkIds :
       LET r == mark_as_used(themes_data[1], theme_id)
           themes == [j \in 1..Len(r.themes) |->
                        IF \E i \in 1..Len(r.themes) :
                             objects[i] = objects[j] /\ r.themes[i].used
                          THEN [r.themes[j] EXCEPT !.used = TRUE] ELSE r.themes[j]]
       IN /\ themes_data' = [themes_data EXCEPT ![1] = themes]
          /\ file' = IF r.saved THEN save_themes(themes) ELSE file
          /\ ret' = [op |-> "mark_as_used", arg |-> theme_id, val |-> 0, raised |-> r.raised]
          /\ ref' = RefMarkUsed(ref, theme_id, objects)
  /\ UNCHANGED <<pc, mainLocals, pending, objects>>

ApiGetUnusedCount ==
  /\ pc[1] = "api"
  /\ ret' = [op |-> "get_unused_count", arg |-> 0,
             val |-> get_unused_count(themes_data[1]), raised |-> FALSE]
  /\ UNCHANGED <<file, themes_data, pc, mainLocals, pending, ref, objects>>

ApiResetAllThemes ==
  /\ pc[1] = "api"
  /\ LET themes == reset_all_themes(themes_data[1]) IN
       /\ themes_data' = [themes_data EXCEPT ![1] = themes]
       /\ file' = save_themes(themes)
  /\ ret' = [op |-> "reset_all_themes", arg |-> 0, val |-> 0, raised |-> FALSE]
  /\ ref' = RefReset(ref)
  /\ UNCHANGED <<pc, mainLocals, pending, objects>>

\* generate_new_themes returns a batch; the caller keeps it
ApiGenerateNewThemes ==
  /\ pc[1] = "api"
  /\ BagCardinality(pending) < MaxPending
  /\ \E response \in Responses :
       LET batch == generate_new_themes(themes_data[1], response) IN
       /\ pending' = pending (+) SetToBag({[new_themes |-> batch,
                                             base |-> Len(themes_data[1])]})
       /\ ret' = [op |-> "generate_new_themes", arg |-> response,
                  val |-> batch, raised |-> FALSE]
  /\ UNCHANGED <<file, themes_data, pc, mainLocals, ref, objects>>

\* generate_new_themes raises (request failure, JSONDecodeError, bad item)
ApiGenerateNewThemesFails ==
  /\ pc[1] = "api"
  /\ ret' = [op |-> "generate_new_themes", arg |-> <<>>, val |-> <<>>, raised |-> TRUE]
  /\ UNCHANGED <<file, themes_data, pc, mainLocals, pending, ref, objects>>

\* add_themes of a batch generate_new_themes returned
ApiAddThemes ==
  /\ pc[1] = "api"
  /\ \E b \in BagToSet(pending) :
       /\ Len(themes_data[1]) + Len(b.new_themes) <= MaxGrown
       /\ LET themes == add_themes(themes_data[1], b.new_themes) IN
            /\ themes_data' = [themes_data EXCEPT ![1] = themes]
            /\ file' = save_themes(themes)
       /\ ret' = [op |-> "add_themes", arg |-> b.new_themes, val |-> b.base, raised |-> FALSE]
       /\ ref' = RefAppend(ref, b.new_themes)
       /\ objects' = objects \o [i \in 1..Len(b.new_themes) |-> Len(objects) + i]
       /\ pending' = pending (-) SetToBag({b})
  /\ UNCHANGED <<pc, mainLocals>>

\* add_themes of a list the caller built itself.  themes.extend (line 183)
\* puts the caller's dict in the store, not a copy: the dict is a new one
\* (k = 0), or one the store holds already at position k, which the caller
\* passed before or got from get_next_theme
ApiAddOwnThemes ==
  /\ pc[1] = "api"
  /\ Len(themes_data[1]) + 1 <= MaxApiThemes
  /\ \E k \in 0..Len(themes_data[1]) :
       \E t \in IF k = 0 THEN SeedTopics ELSE {themes_data[1][k]} :
         /\ LET themes == add_themes(themes_data[1], <<t>>) IN
              /\ themes_data' = [themes_data EXCEPT ![1] = themes]
              /\ file' = save_themes(themes)
         /\ objects' = Append(objects, IF k = 0 THEN Len(objects) + 1 ELSE objects[k])
         /\ ret' = [op |-> "add_themes", arg |-> <<t>>, val |-> -1, raised |-> FALSE]
         /\ ref' = RefAppend(ref, <<t>>)
  /\ UNCHANGED <<pc, mainLocals, pending>>

\* the store API without generation: C3 to C7
NextStore ==
  \/ ApiConstruct
  \/ ApiGetNextTheme
  \/ ApiMarkAsUsed
  \/ ApiGetUnusedCount
  \/ ApiResetAllThemes
  \/ ApiAddOwnThemes

SpecStore == InitStore /\ [][NextStore]_vars

\* generation and the calls that change the store, in any order: C8, C9
NextBatch ==
  \/ ApiGenerateNewThemes
  \/ ApiGenerateNewThemesFails
  \/ ApiAddThemes
  \/ ApiMarkAsUsed
  \/ ApiResetAllThemes

SpecBatch == InitStore /\ [][NextBatch]_vars

\* ================================================================= claims
\* ids of a store, in order
IdsOf(themes) == [i \in 1..Len(themes) |-> themes[i].id]

\* the elements of a sequence of ids are pairwise distinct
Distinct(ids) == \A i, j \in 1..Len(ids) : ids[i] = ids[j] => i = j

\* the largest id of a store, 0 for an empty store
LargestId(themes) ==
  IF Len(themes) = 0 THEN 0
  ELSE CHOOSE m \in {themes[i].id : i \in 1..Len(themes)} :
         \A i \in 1..Len(themes) : themes[i].id <= m

\* v is the position of the lowest-index unused topic, 0 when all are used
LowestUnused(themes, v) ==
  IF \A i \in 1..Len(themes) : themes[i].used
    THEN v = 0
    ELSE /\ v \in 1..Len(themes)
         /\ ~themes[v].used
         /\ \A j \in 1..(v - 1) : themes[j].used

\* store b is store a with topics appended at the end and used flags
\* switched from false to true, nothing else
Grows(a, b) ==
  /\ Len(b) >= Len(a)
  /\ \A i \in 1..Len(a) :
       \/ b[i] = a[i]
       \/ ~a[i].used /\ b[i] = [a[i] EXCEPT !.used = TRUE]

\* C3: get_next_theme returns the lowest-index topic whose used flag is
\* false, or None when every topic is used; the call changes neither the
\* in-memory store nor the file, and two calls in a row return the same topic.
C3_NextIsLowestUnused ==
  /\ [](ret.op = "get_next_theme" => LowestUnused(themes_data[1], ret.val))
  /\ [][ret'.op = "get_next_theme" => UNCHANGED <<themes_data, file>>]_vars
  /\ [][ret.op = "get_next_theme" /\ ret'.op = "get_next_theme" => ret'.val = ret.val]_vars

\* get_next_theme has skipped a used topic and returned a later one
C3_Witness ==
  /\ ret.op = "get_next_theme"
  /\ ret.val >= 2
  /\ themes_data[1][1].used

\* C4 as stated: mark_as_used(id) with an id present in the store does not
\* raise, sets used = true at exactly one position of the sequence, whose
\* topic has that id, and leaves every other position, the order and the
\* length of the sequence unchanged.
C4_Original ==
  [][(ret'.op = "mark_as_used" /\ \E i \in 1..Len(themes_data[1]) : themes_data[1][i].id = ret'.arg)
       => /\ ~ret'.raised
          /\ \E i \in 1..Len(themes_data[1]) :
               /\ themes_data[1][i].id = ret'.arg
               /\ themes_data'[1] = [themes_data[1] EXCEPT ![i].used = TRUE]]_vars

\* C4 amended: mark_as_used(id) with an id present in the store does not
\* raise and sets used = true on exactly one dict, the first of the
\* sequence with that id: the positions that hold this dict show used =
\* true, every other position, the order and the length are unchanged.  In
\* a store that holds every dict at one position only, exactly one position
\* changes.
C4_MarkFlipsOneDict ==
  [][(ret'.op = "mark_as_used" /\ \E i \in 1..Len(themes_data[1]) : themes_data[1][i].id = ret'.arg)
       => /\ ~ret'.raised
          /\ \E i \in 1..Len(themes_data[1]) :
               /\ themes_data[1][i].id = ret'.arg
               /\ \A j \in 1..(i - 1) : themes_data[1][j].id # ret'.arg
               /\ themes_data'[1] =
                    [j \in 1..Len(themes_data[1]) |->
                       IF objects[j] = objects[i]
                         THEN [themes_data[1][j] EXCEPT !.used = TRUE]
                         ELSE themes_data[1][j]]
               /\ (\A j \in 1..Len(objects) : objects[j] = j)
                     => themes_data'[1] = [themes_data[1] EXCEPT ![i].used = TRUE]]_vars

\* a present id was marked in a store that holds another topic still unused
C4_Witness ==
  /\ ret.op = "mark_as_used"
  /\ ~ret.raised
  /\ \E i, j \in 1..Len(themes_data[1]) :
       /\ i # j
       /\ themes_data[1][i].id = ret.arg
       /\ themes_data[1][i].used
       /\ ~themes_data[1][j].used

\* C5: mark_as_used(id) with an id no topic has raises and leaves the
\* in-memory store and the file as they were.
C5_MarkAbsentRaises ==
  [][(ret'.op = "mark_as_used" /\ \A i \in 1..Len(themes_data[1]) : themes_data[1][i].id # ret'.arg)
       => /\ ret'.raised
          /\ UNCHANGED <<themes_data, file>>]_vars

\* an absent id was passed to a store that is not empty
C5_Witness ==
  /\ ret.op = "mark_as_used"
  /\ ret.raised
  /\ Len(themes_data[1]) >= 2
  /\ \A i \in 1..Len(themes_data[1]) : themes_data[1][i].id # ret.arg

\* C6: after every completed mutating operation (add_themes, mark_as_used on
\* a present id, reset_all_themes) the file is a complete snapshot of the
\* in-memory store: loading it gives the in-memory state.
C6_FileIsSnapshot ==
  (ret.op \in {"add_themes", "mark_as_used", "reset_all_themes"} /\ ~ret.raised)
    => /\ Len(file) = Len(themes_data[1])
       /\ load_themes(file) = themes_data[1]

\* a topic was marked used in a store of several topics and the file has it
C6_Witness ==
  /\ ret.op = "mark_as_used"
  /\ ~ret.raised
  /\ Len(file) >= 2
  /\ \E i \in 1..Len(file) : load_themes(file)[i].used /\ load_themes(file)[i].id = ret.arg

\* C7: after any sequence of add_themes and mark_as_used calls,
\* get_unused_count() returns the number of unused topics of the reference
\* model on which the same calls were replayed.
C7_CountMatchesReference ==
  ret.op = "get_unused_count" => ret.val = RefUnusedCount(ref)

\* the count was read after additions and marks: some topics used, some not
C7_Witness ==
  /\ ret.op = "get_unused_count"
  /\ ret.val >= 1
  /\ ref.usedAt # {}
  /\ Len(themes_data[1]) > MaxSeed

\* C8 as stated: from pairwise distinct ids, every call keeps the ids
\* pairwise distinct, whatever the order of the calls.
C8_Original ==
  [][Distinct(IdsOf(themes_data[1])) => Distinct(IdsOf(themes_data'[1]))]_vars

\* C8 amended: from pairwise distinct ids, the ids stay pairwise distinct
\* under mark_as_used, reset_all_themes and every add_themes of a batch
\* returned by generate_new_themes that is added once and before any other
\* add_themes has extended the store since the batch was generated.
C8_DistinctIfAddedAtOnce ==
  [][(/\ Distinct(IdsOf(themes_data[1]))
      /\ (ret'.op = "add_themes" => ret'.val = Len(themes_data[1])))
       => Distinct(IdsOf(themes_data'[1]))]_vars

\* a batch was added to a non-empty store of distinct ids it was generated from
C8_Witness ==
  /\ ret.op = "add_themes"
  /\ Len(ret.arg) >= 1
  /\ ret.val = Len(themes_data[1]) - Len(ret.arg)
  /\ ret.val >= 1
  /\ Distinct(IdsOf(themes_data[1]))

\* C9: a successful generate_new_themes on a response of n items returns n
\* topics in the order of the response, the i-th with id m + i where m is
\* the largest id of the store (0 for an empty store), all with used = false.
C9_GeneratedIds ==
  (ret.op = "generate_new_themes" /\ ~ret.raised)
    => /\ Len(ret.val) = Len(ret.arg)
       /\ \A i \in 1..Len(ret.arg) :
            /\ ret.val[i].id = LargestId(themes_data[1]) + i
            /\ ret.val[i].used = FALSE
            /\ ret.val[i].title = ret.arg[i].title
            /\ ret.val[i].keywords = ret.arg[i].keywords
            /\ ret.val[i].target_pain = ret.arg[i].target_pain
            /\ ret.val[i].approach = ret.arg[i].approach

\* two different items were generated on a store whose largest id is
\* neither its length nor the id of its last topic
C9_Witness ==
  /\ ret.op = "generate_new_themes"
  /\ ~ret.raised
  /\ Len(ret.val) = 2
  /\ ret.val[1].title # ret.val[2].title
  /\ Len(themes_data[1]) >= 2
  /\ LargestId(themes_data[1]) # themes_data[1][Len(themes_data[1])].id
  /\ ret.val[1].id = LargestId(themes_data[1]) + 1

\* ---------------------------------------------------- the pipeline runs
\* positions of main after get_next_theme and before mark_as_used
Selected == {"article", "publish", "image"}

\* positions at which a run has failed after selecting and before marking
FailedAfterSelect == {"exit_article", "exit_post"}

\* C1: when a run fails after get_next_theme selected a topic and before
\* mark_as_used (article generation failure, create_post failure), the
\* selected topic is still unused in memory and in the file, it is what
\* get_next_theme returns on the file as it stands, and the next run
\* selects the same topic.
C1_FailedRunKeepsTopic ==
  /\ [](pc[1] \in Selected \cup FailedAfterSelect
          => /\ theme[1] \in 1..Len(themes_data[1])
             /\ ~themes_data[1][theme[1]].used
             /\ theme[1] \in 1..Len(file)
             /\ ~load_themes(file)[theme[1]].used
             /\ load_themes(file)[theme[1]] = themes_data[1][theme[1]]
             /\ get_next_theme(load_themes(file)) = theme[1])
  /\ [][(pc[1] = "select" /\ pc'[1] = "article" /\ prev[1].pc \in FailedAfterSelect)
          => /\ theme'[1] = prev[1].theme
             /\ themes_data'[1][theme'[1]] = prev[1].topic]_vars

\* the run after a failed create_post has selected the same topic again,
\* the CMS holding the post of the failed run
C1_Witness ==
  /\ pc[1] = "article"
  /\ prev[1].pc = "exit_post"
  /\ theme[1] = prev[1].theme
  /\ theme[1] >= 2
  /\ Len(posts) = 1
  /\ posts[1].answer = "lost"
  /\ posts[1].topic = theme[1]

\* the positions at which a run that reached create_post has ended
EndedAfterPost == {"done", "exit_mark", "exit_post"}

\* create_post returned a post to the run process p is in (with answers
\* in Answers): the CMS holds a post p made since the run started
Returned(p, Answers) ==
  \E i \in (prev[p].posts + 1)..Len(posts) :
    posts[i].by = p /\ posts[i].answer \in Answers

\* C2 as stated: every run in which create_post returned ends with the
\* selected topic used in memory and in the file, for any loaded store.
C2_Original ==
  (pc[1] \in EndedAfterPost /\ Returned(1, {"ok", "no_link"}))
    => /\ themes_data[1][theme[1]].used
       /\ load_themes(file)[theme[1]].used

\* no topic stored before the selected one carries the same id
FirstOfItsId(themes, k) == \A j \in 1..(k - 1) : themes[j].id # themes[k].id

\* C2 amended: every run in which create_post returned a post holding its
\* id and its link, on a loaded store in which no topic stored before the
\* selected one has the same id, goes on to mark the selected topic used in
\* memory whatever the featured-image step did, and ends normally with the
\* topic used in memory and in the file.
C2_PublishedTopicMarked ==
  /\ (pc[1] \in EndedAfterPost /\ Returned(1, {"ok"})
        /\ FirstOfItsId(themes_data[1], theme[1]))
       => /\ pc[1] = "done"
          /\ exit_code[1] = 0
          /\ themes_data[1][theme[1]].used
          /\ load_themes(file)[theme[1]].used
  /\ (pc[1] = "mark_save" /\ FirstOfItsId(themes_data[1], theme[1]))
       => /\ Returned(1, {"ok"})
          /\ themes_data[1][theme[1]].used

\* a run has published and marked a topic whose id a later topic shares,
\* and the later topic is still unused
C2_Witness ==
  /\ pc[1] = "done"
  /\ post_id[1] # 0
  /\ FirstOfItsId(themes_data[1], theme[1])
  /\ load_themes(file)[theme[1]].used
  /\ \E j \in (theme[1] + 1)..Len(file) :
       /\ load_themes(file)[j].id = load_themes(file)[theme[1]].id
       /\ ~load_themes(file)[j].used

\* C10: over any sequence of pipeline runs the store changes only by topics
\* appended at the end and used flags switched from false to true: in the
\* memory of a run while it lasts, and in the file from one save to the
\* next.  A save opens the file when the memory has grown from what the
\* file held, and then writes that memory; nothing else touches the file.
C10_StoreOnlyGrows ==
  [][/\ (pc[1] \notin {"idle"} \cup Terminal => Grows(themes_data[1], themes_data'[1]))
     /\ (file' # file /\ Readable(file)
           => /\ file' = EmptyFile
              /\ Grows(load_themes(file), themes_data'[1]))
     /\ (file' # file /\ ~Readable(file)
           => /\ file = EmptyFile
              /\ themes_data'[1] = themes_data[1]
              /\ file' = save_themes(themes_data[1]))]_vars

\* topics were appended by one run and one of them was consumed by a later
\* run, beside a pre-seeded topic that is still unused
C10_Witness ==
  /\ pc[1] = "done"
  /\ Readable(file)
  /\ \E i, j \in 1..Len(file) :
       /\ load_themes(file)[i].id > MaxSeedId
       /\ load_themes(file)[i].used
       /\ ~load_themes(file)[j].used

\* C11: topic consumption is at-least-once: when a run stops after
\* create_post returned and before mark_as_used has written the file, the
\* file is left such that the next run loads it and get_next_theme returns
\* the same topic; the next run selects that topic, and when its
\* create_post returns the CMS holds two posts made from it.
C11_CrashRepublishes ==
  /\ [](pc[1] = "crash_published"
          => /\ Readable(file)
             /\ get_next_theme(load_themes(file)) = theme[1]
             /\ load_themes(file)[theme[1]].id = themes_data[1][theme[1]].id)
  /\ [][(pc[1] = "select" /\ pc'[1] = "article" /\ prev[1].pc = "crash_published")
          => /\ theme'[1] = prev[1].theme
             /\ themes_data'[1][theme'[1]].id = prev[1].topic.id]_vars
  /\ []((pc[1] = "image" /\ prev[1].pc = "crash_published")
          => \E i, j \in 1..Len(posts) :
               /\ i < j
               /\ j = post_id[1]
               /\ posts[i].topic = theme[1]
               /\ posts[j].topic = theme[1]
               /\ posts[i].theme_id = posts[j].theme_id)

\* C12: two runs on the same store file race on the snapshot.  Every
\* rewrite of the file is made from the memory of the run that writes,
\* built from what that run loaded and changed itself: a refill appends to
\* its own memory, a mark changes no length, the file is opened (emptied)
\* and the text of that memory is written at its head.  What the other run
\* saved in between is not read again, so it is overwritten, and both runs
\* select from their own copy, so both can publish the same topic.
C12_RewriteFromOwnMemory ==
  [][file' # file
       => \E p \in Procs :
            /\ pc'[p] # pc[p]
            /\ \/ /\ pc[p] \in {"loaded", "image"}
                  /\ file' = EmptyFile
                  /\ Grows(themes_data[p], themes_data'[p])
                  /\ (pc[p] = "image" => Len(themes_data'[p]) = Len(themes_data[p]))
               \/ /\ pc[p] \in {"refill_save", "mark_save"}
                  /\ themes_data'[p] = themes_data[p]
                  /\ file' = write_themes(file, themes_data[p])
                  /\ (file = EmptyFile => file' = save_themes(themes_data[p]))]_vars

\* both runs have published the same position of the store, and a topic
\* that run 1 appended and saved is no longer in the file
C12_Witness ==
  /\ pc[1] = "done"
  /\ pc[2] = "done"
  /\ \E i, j \in 1..Len(posts) :
       /\ posts[i].by = 1
       /\ posts[j].by = 2
       /\ posts[i].topic = posts[j].topic
       /\ posts[i].theme_id = posts[j].theme_id
  /\ Readable(file)
  /\ \E i \in 1..Len(themes_data[1]) :
       /\ themes_data[1][i].id > MaxSeedId
       /\ (i > Len(file) \/ load_themes(file)[i].title # themes_data[1][i].title)

\* what a response asks for, read off the way it was written, not parsed:
\* a complete array whose every element is an object with the four members
WellFormedPayload(pl) ==
  /\ pl.shape = "array"
  /\ \A i \in 1..Len(pl.elems) :
       pl.elems[i].t = "obj" /\ pl.elems[i].keys = FieldNames

\* a response that cannot be parsed, read off the way it was written: the
\* payload is no JSON text (an array cut short, prose, nothing), or an
\* opening fence without the json label stays in front of it
Unparsable(d) ==
  d.payload.shape \in {"truncated", "prose", "empty"} \/ d.wrap = "plain_fence"

\* the number of items the loop of line 163 reads from a payload: the
\* elements of an array, the members of an object, the characters of a
\* string
ItemCount(pl) ==
  CASE pl.shape = "array" -> Len(pl.elems)
    [] pl.shape = "object" -> Cardinality(pl.elems[1].keys)
    [] pl.shape = "string" -> pl.elems[1].len
    [] OTHER -> 0

\* some item of the payload is invalid: not an object with the four members
SomeItemInvalid(pl) == ItemCount(pl) > 0 /\ ~WellFormedPayload(pl)

\* C13: generation is all-or-nothing and leaves the store alone.  A
\* response that cannot be parsed, or that has an item which is not an
\* object with the four members, makes generate_new_themes raise and
\* return no topic, and the run that asked for it leaves the store and the
\* file as they were; every other response is accepted and yields one
\* topic per item, none for a payload without items, and the store changes
\* only by add_themes appending exactly those topics and then saving them.
C13_GenerationAllOrNothing ==
  /\ [](ret.op = "generate_new_themes"
          => /\ ((Unparsable(ret.arg) \/ SomeItemInvalid(ret.arg.payload)) <=> ret.raised)
             /\ (ret.raised => ret.val = <<>>)
             /\ (~ret.raised => Len(ret.val) = ItemCount(ret.arg.payload)))
  /\ [][(pc[1] = "loaded" /\ pc'[1] # "loaded"
            /\ get_unused_count(themes_data[1]) <= LowSupply)
          => IF ret'.raised
               THEN file' = file /\ themes_data' = themes_data /\ pc'[1] = "select"
               ELSE /\ themes_data'[1] = themes_data[1] \o ret'.val
                    /\ new_themes'[1] = ret'.val
                    /\ pc'[1] = "refill_save"]_vars
  /\ [][pc[1] = "refill_save"
          => /\ themes_data' = themes_data
             /\ file' = save_themes(themes_data[1])
             /\ pc'[1] = "select"]_vars

\* a response whose second element lacks a member was refused as a whole
\* by a run whose store held topics, and the run went on to publish
C13_Witness ==
  /\ ret.op = "generate_new_themes"
  /\ ret.raised
  /\ ret.arg.payload.shape = "array"
  /\ Len(ret.arg.payload.elems) = 2
  /\ ret.arg.payload.elems[1].keys = FieldNames
  /\ ret.arg.payload.elems[2].t = "obj"
  /\ ret.arg.payload.elems[2].keys # FieldNames
  /\ ret.arg.wrap = "json_fence"
  /\ pc[1] = "done"
  /\ Len(themes_data[1]) > 0
  /\ file = save_themes(themes_data[1])

\* C14: a code fence around the response is tolerated.  For every complete
\* array of complete items, the response wrapped in a fence, labelled json
\* or not, yields the topics the bare response yields.
C14_FenceTolerated ==
  [][(/\ pc[1] = "loaded" /\ pc'[1] = "select"
      /\ get_unused_count(themes_data[1]) <= LowSupply
      /\ ret'.arg.wrap \in {"json_fence", "plain_fence"}
      /\ WellFormedPayload(ret'.arg.payload))
       => /\ ~ret'.raised
          /\ ret'.val = generate_from_text(themes_data[1],
                          Render([payload |-> ret'.arg.payload,
                                  wrap |-> "none"])).new_themes]_vars

\* the completion carries a block of name n
HasBlock(d, n) == d.st[n] \in {"block", "stray_around"}

\* C15: the primary path of the extractor.  When the completion carries a
\* TITLE block and a CONTENT block, title and content are the bodies of
\* these blocks without the whitespace around them, description and tags
\* are the bodies of their blocks or the empty string when the completion
\* has no such block, theme_id is the id of the topic, and nothing is
\* raised.
C15_PrimaryPath ==
  (/\ ret.op = "generate_article"
   /\ ret.arg.request_ok
   /\ HasBlock(ret.arg.completion, "TITLE")
   /\ HasBlock(ret.arg.completion, "CONTENT"))
    => LET d == ret.arg.completion
           expect(n) == IF HasBlock(d, n) THEN BodyOf(n, d.style) ELSE <<>>
       IN /\ ~ret.raised
          /\ ret.val.title = expect("TITLE")
          /\ ret.val.content = expect("CONTENT")
          /\ ret.val.description = expect("DESCRIPTION")
          /\ ret.val.tags = expect("TAGS")
          /\ ret.val.theme_id = ret.arg.theme.id

\* blocks in reverse order inside prose, bodies of two words with line
\* breaks around them, TAGS opened and never closed, no DESCRIPTION
C15_Witness ==
  /\ ret.op = "generate_article"
  /\ ret.arg.request_ok
  /\ ret.arg.completion.st = [n \in TagNames |->
                                CASE n = "TITLE" -> "stray_around"
                                  [] n = "CONTENT" -> "block"
                                  [] n = "TAGS" -> "open_only"
                                  [] n = "DESCRIPTION" -> "absent"]
  /\ ret.arg.completion.style = 2
  /\ ret.arg.completion.order = "rev"
  /\ ret.arg.completion.prose
  /\ ret.val.title = <<W("TITLE"), Ws, W("more")>>
  /\ ret.val.tags = <<>>
  /\ ret.arg.theme.id = 2

\* C16: the fallback path of the extractor.  When the completion lacks the
\* TITLE block or the CONTENT block (no tag at all, an opening tag never
\* closed, a closing tag never opened), content is the completion as
\* received, title is the title of the topic, description and tags are
\* empty whatever DESCRIPTION or TAGS blocks the completion carries,
\* theme_id is the id of the topic, and nothing is raised.
C16_FallbackPath ==
  (/\ ret.op = "generate_article"
   /\ ret.arg.request_ok
   /\ (~HasBlock(ret.arg.completion, "TITLE") \/ ~HasBlock(ret.arg.completion, "CONTENT")))
    => /\ ~ret.raised
       /\ ret.val.content = RenderCompletion(ret.arg.completion)
       /\ ret.val.title = Text(ret.arg.theme.title)
       /\ ret.val.description = <<>>
       /\ ret.val.tags = <<>>
       /\ ret.val.theme_id = ret.arg.theme.id

\* a TITLE block, DESCRIPTION and TAGS blocks, and a CONTENT tag that is
\* opened and never closed: the whole text, tags included, is the content
C16_Witness ==
  /\ ret.op = "generate_article"
  /\ ret.arg.request_ok
  /\ ret.arg.completion.st = [n \in TagNames |->
                                IF n = "CONTENT" THEN "open_only" ELSE "block"]
  /\ ret.arg.completion.style = 2
  /\ ret.arg.completion.order = "fwd"
  /\ ~ret.arg.completion.prose
  /\ Len(ret.val.content) > 10
  /\ ret.val.content[1] = Open("TITLE")
  /\ ret.val.description = <<>>
  /\ ret.val.title = <<W(ret.arg.theme.title)>>

\* C17: the category.  A response that is a name of the table, whatever
\* whitespace surrounds it, gives the id of that name; every other
\* response and every failure of the request give the default id 1;
\* nothing is raised and the result is always an id of the table.
C17_CategoryOrDefault ==
  ret.op = "determine_category"
    => /\ ~ret.raised
       /\ ret.val \in { CATEGORY_MAP[k] : k \in DOMAIN CATEGORY_MAP }
       /\ \A k \in DOMAIN CATEGORY_MAP :
            (ret.arg.request_ok /\ ret.arg.reply = <<W(k)>>) => ret.val = CATEGORY_MAP[k]
       /\ (~ret.arg.request_ok \/ ret.arg.reply \notin { <<W(k)>> : k \in DOMAIN CATEGORY_MAP })
            => ret.val = 1

\* a name of the table between line breaks gave its id, which is not the
\* default
C17_Witness ==
  /\ ret.op = "determine_category"
  /\ ret.arg.request_ok
  /\ ret.arg.reply = <<W("MixingMastering")>>
  /\ ret.arg.lead
  /\ ret.arg.trail
  /\ ret.val = 8

\* the positions of the links in a text add_internal_links returned
LinksIn(text) == { k \in 1..Len(text) : text[k].t = "href" }

\* the link at position k of the text is the link of the post at position i
\* of the list, under the title of that post
LinkOfPost(text, k, existing_posts, i) ==
  /\ text[k].n = existing_posts[i].link
  /\ k + Len(existing_posts[i].title) <= Len(text)
  /\ SubSeq(text, k + 1, k + Len(existing_posts[i].title)) = existing_posts[i].title

\* C18: the related-content selection.  With fewer than three existing
\* posts the content comes back unchanged; with three or more, for every
\* max_links and every response, at most max_links links are appended and
\* each link has the title and the URL of a post of the list.
C18_AtMostMaxLinks ==
  ret.op = "add_internal_links"
    => /\ ~ret.raised
       /\ (ret.arg.posts < MinCorpus => ret.val.text = ret.arg.content)
       /\ (ret.arg.posts >= MinCorpus
             => /\ Cardinality(LinksIn(ret.val.text)) <= ret.arg.max_links
                /\ \A k \in LinksIn(ret.val.text) :
                     \E i \in 1..ret.arg.posts :
                       LinkOfPost(ret.val.text, k, ExistingPosts(ret.arg.posts), i))

\* C19: only the first CandidateLimit titles are candidates.  The prompt
\* lists the titles of the first CandidateLimit posts and no other, and
\* every link appended is the link of one of these posts, whatever the
\* response.
C19_OnlyCandidatesLinked ==
  ret.op = "add_internal_links"
    => /\ Len(ret.val.posts_list) <= CandidateLimit
       /\ \A i \in 1..Len(ret.val.posts_list) :
            ret.val.posts_list[i] = ExistingPost(i).title
       /\ \A k \in LinksIn(ret.val.text) :
            \E i \in 1..CandidateLimit :
              /\ i <= ret.arg.posts
              /\ LinkOfPost(ret.val.text, k, ExistingPosts(ret.arg.posts), i)

\* C20: no sub-step ends the run.  Once generate_article has returned,
\* category, tags and related content each hand over to the next step
\* whatever their outcome, and when the run is past the publish step
\* create_post has been called exactly once, with the title of the
\* article, its content (the extractor's, with the links block after it if
\* one was selected), a category of the table and the tag ids found.
C20_SubStepsNeverAbort ==
  /\ [][(pc[1] \in {"category", "tags", "links"} /\ pc'[1] # pc[1])
          => /\ pc'[1] = (CASE pc[1] = "category" -> "tags"
                            [] pc[1] = "tags" -> "links"
                            [] pc[1] = "links" -> "publish")
             /\ exit_code'[1] = -1]_vars
  /\ []((ret.op = "run" /\ ~ret.raised
          /\ pc[1] \notin {"category", "tags", "links", "publish"})
         => /\ Len(ret.val.create_post) = 1
            /\ LET call == ret.val.create_post[1]
                   theme_ == themes_data[1][theme[1]]
                   article == generate_article(theme_, RenderCompletion(ret.arg.completion))
               IN /\ call.title = article.title
                  /\ SubSeq(call.content, 1, Len(article.content)) = article.content
                  /\ Len(call.content) >= Len(article.content)
                  /\ call.categories[1] \in { CATEGORY_MAP[k] : k \in DOMAIN CATEGORY_MAP }
                  /\ (ret.arg.category \in {"failed", "Other"} => call.categories = <<1>>)
                  /\ (ret.arg.links \in {"posts_failed", "no_posts", "few_posts",
                                         "request_failed"}
                        => call.content = article.content))

\* a finished run in which the extractor fell back on the whole text, the
\* category request failed and the list of posts could not be read: the
\* post was created once, in the default category, with the text as is
C20_Witness ==
  /\ pc[1] = "done"
  /\ ret.op = "run"
  /\ ret.arg.completion.st["TITLE"] = "open_only"
  /\ ret.arg.category = "failed"
  /\ ret.arg.links = "posts_failed"
  /\ Len(ret.val.create_post) = 1
  /\ ret.val.create_post[1].categories = <<1>>
  /\ ret.val.create_post[1].content = RenderCompletion(ret.arg.completion)
  /\ Len(posts) = 1

\* where a run stands after a failure that is fatal to the run: credential
\* or connection, store file, article request, create_post
FatalExits == {"exit_setup", "exit_load", "exit_article", "exit_post"}

\* the positions whose used flag is false in store f and true in store g
Flipped(f, g) == {i \in 1..Len(f) : i <= Len(g) /\ ~f[i].used /\ g[i].used}

\* C21: failures that are fatal to the run.  A missing or unparsable store
\* file, an absent credential, a failed article request and a failed
\* create_post each end the run with a nonzero exit status; the step that
\* fails leaves the file as it is and, after the load, the memory too;
\* nothing follows it but a new invocation, no run gets past its setup on
\* a file that cannot be read, and a used flag is set, and the file opened
\* to save it, only by the step after the featured image, which no run
\* that failed has taken.
C21_FatalFailuresAbort ==
  /\ [](pc[1] \in FatalExits => exit_code[1] > 0)
  /\ [](file \in {NoFile, CorruptFile} => pc[1] \in {"idle", "exit_setup", "exit_load"})
  /\ [][(~Readable(file) /\ pc[1] \in {"idle"} \cup Terminal)
          => pc'[1] \in {"exit_setup", "exit_load"}]_vars
  /\ [][(pc'[1] \in FatalExits /\ pc'[1] # pc[1])
          => /\ file' = file
             /\ Readable(file) \/ pc'[1] \in {"exit_setup", "exit_load"}
             /\ (pc'[1] \in {"exit_article", "exit_post"} => themes_data' = themes_data)
             /\ (pc'[1] # "exit_post" => posts' = posts)]_vars
  /\ [][pc[1] \in FatalExits
          => /\ pc'[1] \in {"loaded", "exit_setup", "exit_load"}
             /\ file' = file
             /\ posts' = posts]_vars
  /\ [][(pc[1] \notin {"idle"} \cup Terminal
           /\ Flipped(themes_data[1], themes_data'[1]) # {})
          => (pc[1] = "image" /\ pc'[1] = "mark_save")]_vars
  /\ [][file' # file
          => \/ pc[1] = "loaded" /\ pc'[1] = "refill_save"
             \/ pc[1] = "image" /\ pc'[1] = "mark_save"
             \/ pc[1] = "refill_save" /\ pc'[1] = "select"
             \/ pc[1] = "mark_save" /\ pc'[1] = "done"]_vars

\* a run failed in create_post, the CMS having stored the post, after the
\* run before it had failed in the article request: the topic is unused in
\* the file
C21_Witness ==
  /\ pc[1] = "exit_post"
  /\ exit_code[1] = 1
  /\ prev[1].pc = "exit_article"
  /\ Len(posts) = 1
  /\ posts[1].answer = "lost"
  /\ theme[1] >= 2
  /\ Readable(file)
  /\ ~load_themes(file)[theme[1]].used

\* the least position from i on where outcomes holds "ok", 0 if none
RECURSIVE FirstOk(_, _)
FirstOk(outcomes, i) ==
  IF i > Len(outcomes) THEN 0
  ELSE IF outcomes[i] = "ok" THEN i
  ELSE FirstOk(outcomes, i + 1)

\* C22: the featured image.  The keywords of the topic are searched in
\* their stored order, then the fallback keyword; whatever fails for a
\* keyword, the next one is searched; the search ends at the first keyword
\* for which every step succeeds and returns the id of the media uploaded
\* for it, or None after the last keyword; nothing is raised, and the run
\* marks the topic and ends with status 0 whatever the outcomes were.
C22_ImageNeverBlocks ==
  /\ [](ret.op = "add_featured_image_to_post"
          => LET search_keywords == ret.arg.keywords \o <<"music production">>
                 k == FirstOk(ret.arg.outcomes, 1)
             IN /\ ~ret.raised
                /\ (k = 0 => /\ ret.val.media_id = 0
                             /\ ret.val.tried = search_keywords)
                /\ (k # 0 => /\ ret.val.media_id = MediaId(k)
                             /\ ret.val.tried = SubSeq(search_keywords, 1, k)))
  /\ [][(pc[1] = "image" /\ pc'[1] # "image")
          => /\ pc'[1] = "mark_save"
             /\ posts' = posts
             /\ \E i \in 1..Len(themes_data'[1]) :
                  /\ themes_data'[1][i].id = themes_data[1][theme[1]].id
                  /\ themes_data'[1][i].used]_vars
  /\ [][pc[1] = "mark_save"
          => /\ pc'[1] = "done"
             /\ exit_code'[1] = 0
             /\ posts' = posts
             /\ themes_data' = themes_data
             /\ file' = save_themes(themes_data[1])]_vars

\* both keywords of the topic failed, one with no image and one in the
\* request that sets the image, the fallback keyword succeeded: its media
\* id is returned, the run is done
C22_Witness ==
  /\ pc[1] = "done"
  /\ ret.op = "add_featured_image_to_post"
  /\ ret.arg.keywords = <<"k1", "k2">>
  /\ ret.arg.outcomes = <<"no_image", "set_raises", "ok">>
  /\ ret.val.media_id = MediaId(3)
  /\ ret.val.tried = <<"k1", "k2", "music production">>
  /\ ret.val.uploads = <<MediaId(2), MediaId(3)>>
  /\ Len(posts) = 1

\* ------------------------------------------- publishing at most once (C23)
\* on a store whose ids are pairwise distinct, no two of the posts that
\* create_post returned with an answer in Answers come from the same topic
OncePerTopic(Answers) ==
  (Readable(file) /\ Distinct(IdsOf(load_themes(file))))
    => \A i, j \in 1..Len(posts) :
         (/\ posts[i].answer \in Answers
          /\ posts[j].answer \in Answers
          /\ (posts[i].topic = posts[j].topic \/ posts[i].theme_id = posts[j].theme_id))
           => i = j

\* a run stores at most one post, by the step that leaves the publish
\* position, and sets at most one used flag, by the step after the
\* featured image, which opens the file; the write that follows ends the
\* run, and a run that has ended does nothing more
OncePerRun ==
  /\ [][posts' # posts
          => /\ pc[1] = "publish" /\ pc'[1] \in {"image", "exit_post"}
             /\ Len(posts') = Len(posts) + 1
             /\ SubSeq(posts', 1, Len(posts)) = posts]_vars
  /\ [][(post_id[1] # 0 /\ post_id'[1] # post_id[1])
          => (pc[1] \in Terminal /\ pc'[1] \in {"loaded", "exit_setup"})]_vars
  /\ [][pc[1] \notin {"idle"} \cup Terminal
          => /\ Cardinality(Flipped(themes_data[1], themes_data'[1])) <= 1
             /\ (Flipped(themes_data[1], themes_data'[1]) # {}
                   => pc[1] = "image" /\ pc'[1] = "mark_save")]_vars
  /\ [][pc[1] = "mark_save"
          => /\ pc'[1] = "done"
             /\ themes_data' = themes_data
             /\ file' = save_themes(themes_data[1])]_vars
  /\ [][pc[1] \in Terminal
          => (pc'[1] \in {"loaded", "exit_setup"} /\ file' = file /\ posts' = posts)]_vars

\* C23 as stated: over pipeline runs made one after the other, each running
\* to its end, on a store whose ids are pairwise distinct, no two posts for
\* which create_post succeeded come from the same topic; a run publishes at
\* most one post and marks at most one topic used.
C23_Original == []OncePerTopic({"ok", "no_link"}) /\ OncePerRun

\* C23 amended: the same, for the posts that create_post returned with the
\* id and the link main reads at lines 589-590.
C23_PublishedAtMostOnce == []OncePerTopic({"ok"}) /\ OncePerRun

\* three runs on a store with distinct ids: one published, the next failed
\* at create_post, the third published the topic the failed run had kept
C23_Witness ==
  /\ pc[1] = "done"
  /\ prev[1].pc = "exit_post"
  /\ Readable(file)
  /\ Distinct(IdsOf(load_themes(file)))
  /\ Len(posts) = 2
  /\ posts[1].answer = "ok" /\ posts[2].answer = "ok"
  /\ posts[1].topic # posts[2].topic
  /\ posts[2].topic = theme[1]
  /\ prev[1].theme = theme[1]
  /\ load_themes(file)[posts[1].topic].used
  /\ load_themes(file)[posts[2].topic].used

\* ------------------------------------------ images after the headings (C24)
\* the content with block i put right after its i-th </h2>, for the first n
\* blocks, built from character from on; the rest of the content in order
RECURSIVE PlacedAfterHeadings(_, _, _, _, _, _)
PlacedAfterHeadings(content, ends, blocks, n, i, from) ==
  IF i > n THEN SubSeq(content, from, Len(content))
  ELSE SubSeq(content, from, ends[i]) \o blocks[i]
         \o PlacedAfterHeadings(content, ends, blocks, n, i + 1, ends[i] + 1)

\* C24: insert_images_into_content returns the content with the i-th
\* uploaded image block immediately after the i-th </h2> of the content, for
\* every i up to min(number of </h2>, max_images, number of uploaded images),
\* the positions not shifted by the blocks put in before, the content
\* otherwise kept in order; with no </h2> or no uploaded image the content
\* comes back unchanged.
C24_ImagesAfterHeadings ==
  ret.op = "insert_images_into_content"
    => LET ends == h2_matches(ret.arg.content, 1)
           blocks == [i \in 1..Len(ret.val.uploaded) |-> img_html(ret.val.uploaded[i])]
           n == min(min(Len(ends), ret.arg.max_images), Len(blocks))
       IN /\ ~ret.raised
          /\ ret.val.content = PlacedAfterHeadings(ret.arg.content, ends, blocks, n, 1, 1)
          /\ (Len(ends) = 0 \/ Len(blocks) = 0 => ret.val.content = ret.arg.content)

====
